---- MODULE Spec2Model ----
(***************************************************************************)
(* A model of the job pipeline (app/services/job_service.py), of the       *)
(* notification fan-out (ConnectionManager in app/main.py) and of the      *)
(* parts of the analysis engine (app/services/code_analyzer.py) that the   *)
(* pipeline calls.                                                         *)
(*                                                                         *)
(* A Job is one Python object.  The store's dict, the worker's local `job` *)
(* and whatever get_job handed out all refer to that one object, so        *)
(* jobs[id] below is the object itself: an assignment such as              *)
(* `job.status = ...` in the worker is visible through the store at once,  *)
(* before update_job runs.                                                 *)
(***************************************************************************)
EXTENDS Integers, Sequences, FiniteSets, TLC

VARIABLES
    jobs,            \* JobService.jobs: job id -> the Job object
    job_queue,       \* JobService.job_queue
    lock,            \* JobService.lock: 0 when free, else the holding thread
    worker_thread,   \* JobService.worker_thread: 0 for None, else a thread
    alive,           \* the worker threads for which is_alive() is true
    pc,              \* per worker thread: where it stands in the code
    w_job,           \* per worker thread: local job_id / job (0 for None)
    w_functions,     \* per worker thread: local `functions` of _process_job
    w_i,             \* per worker thread: functions already taken by the for loop
    w_ret,           \* per worker thread: where update_job returns to
    w_exc,           \* per worker thread: str(e) of the exception being handled
    clock,           \* datetime.now(), counted in ticks
    events,          \* the update messages handed to asyncio.create_task, in order
    can_schedule,    \* update_job's try block gets as far as scheduling: get_manager()
                     \* returns a manager and asyncio.create_task finds a running loop
    ast_grep,        \* the deployment has the ast-grep executable
    active_connections, \* ConnectionManager.active_connections
    ws_state,        \* per websocket: "new", "open", "closed" (the client left), "gone"
    b_pc,            \* per broadcast task: "unscheduled", "running", "done"
    b_i,             \* per broadcast task: position of its list iterator
    b_disconnected,  \* per broadcast task: local `disconnected`
    b_start,         \* per broadcast task: the active set when its loop began
    b_tried,         \* per broadcast task: the websockets it called send_json on
    received,        \* per websocket: the messages send_json delivered, in order
    l_code,          \* find_functions: the source text it is called with
    l_tool,          \* find_functions: how the ast-grep executable behaves in this call
    l_matches,       \* find_functions: the matches the executable prints, if it prints any
    l_result,        \* find_functions: what the call returned or raised
    s_code,          \* generate_mermaid_diagram: the source text it is called with
    s_name,          \* generate_mermaid_diagram: its function_name
    s_tool,          \* generate_mermaid_diagram: _find_ast_grep() finds the executable
    s_pc,            \* generate_mermaid_diagram: "call", "query" (in
                     \* _analyze_control_structures), "loop" (in the for loop of
                     \* _generate_mermaid_from_ast), "done", "raised"
    s_q,             \* _analyze_control_structures: the queries that have run
    s_structures,    \* _generate_mermaid_from_ast: local `structures`
    s_i,             \* _generate_mermaid_from_ast: structures the for loop has taken
    s_lines,         \* _generate_mermaid_from_ast: local `diagram_lines`
    s_node,          \* _generate_mermaid_from_ast: local `current_node`
    s_counter,       \* _generate_mermaid_from_ast: local `node_counter`
    s_diagram,       \* generate_mermaid_diagram: the text returned ("" before)
    x_items,         \* _extract_function_code: what the body of f is made of
    x_code,          \* _extract_function_code: the source text, character by character
    x_name,          \* _extract_function_code: its function_name
    x_result,        \* _extract_function_code: the text returned ("" before)
    v_code,          \* validate_mermaid_syntax: its mermaid_code
    v_cli,           \* validate_mermaid_syntax: what running mermaid-cli through npx does
    v_called,        \* validate_mermaid_syntax: the call has returned
    v_result,        \* validate_mermaid_syntax: what it returned
    r_route,         \* a request handler of routes/jobs.py that is running: "none",
                     \* "get" (get_job), "list" (list_jobs)
    r_held,          \* the ids of the Job objects that handler has a reference to
    r_seen,          \* the response the last handler built
    h_stored         \* per job id: the states of the job that create_job and the
                     \* updates of update_job have stored (history)

pipe_vars == <<jobs, job_queue, lock, worker_thread, alive, pc, w_job,
               w_functions, w_i, w_ret, w_exc, clock, events,
               can_schedule, ast_grep>>

bus_vars == <<active_connections, ws_state, b_pc, b_i, b_disconnected,
              b_start, b_tried, received>>

locator_vars == <<l_code, l_tool, l_matches, l_result>>

synth_vars == <<s_code, s_name, s_tool, s_pc, s_q, s_structures, s_i, s_lines, s_node,
                s_counter, s_diagram>>

extract_vars == <<x_items, x_code, x_name, x_result>>

validate_vars == <<v_code, v_cli, v_called, v_result>>

analyzer_vars == <<locator_vars, synth_vars, extract_vars, validate_vars>>

reader_vars == <<r_route, r_held, r_seen, h_stored>>

vars == <<pipe_vars, bus_vars, analyzer_vars, reader_vars>>

(***************************************************************************)
(* Bounds of the model.                                                    *)
(***************************************************************************)
MaxJobs == 2
MaxThreads == 2
MaxSockets == 2
MaxEvents == 2
MaxHeaders == 3
MaxStructures == 3
MaxItems == 3
MaxLines == 3
MaxMatches == 3

Threads == 1..MaxThreads
Sockets == 1..MaxSockets
\* A broadcast task is named by the number of the message it carries.
Broadcasts == 1..MaxEvents

None == "None"

(***************************************************************************)
(* app/models/job.py                                                       *)
(***************************************************************************)
QUEUED == "queued"
IN_PROGRESS == "in_progress"
SUCCESS == "success"
FAILED == "failed"

JobStatus == {QUEUED, IN_PROGRESS, SUCCESS, FAILED}

FunctionResult(name, mermaid_diagram) ==
    [name |-> name, mermaid_diagram |-> mermaid_diagram, analysis |-> None]

\* Job(id=job_id, code=code): every other field takes its default.  The
\* default updated_at is evaluated once, when the class is defined: tick 0.
Job(id, code) ==
    [id |-> id, code |-> code, status |-> QUEUED, updated_at |-> 0,
     total_functions |-> 0, processed_functions |-> 0,
     functions |-> <<>>, error_message |-> None]

(***************************************************************************)
(* Source texts.  A source text is the sequence of its function            *)
(* definitions; a definition is its return type, its name and the control  *)
(* structures of its body in source order.                                 *)
(***************************************************************************)
Foo == [rtype |-> "int", name |-> "foo", body |-> <<"if">>]
Bar == [rtype |-> "void", name |-> "bar", body |-> <<"for", "return">>]

Codes == {<<>>, <<Foo, Bar>>}

\* Two more definitions: one whose return type the fallback's pattern does
\* not list, one whose name the tool path filters out.
Baz == [rtype |-> "long", name |-> "baz", body |-> <<"while">>]
Init_ == [rtype |-> "int", name |-> "_init", body |-> <<>>]

Definitions == {Foo, Bar, Baz, Init_}

\* The source texts of at most n definitions (a definition may occur twice,
\* as under #if / #else)
TextsUpTo(n) == UNION {[1..k -> Definitions] : k \in 0..n}

\* str(e) of the exceptions a call may raise
Exceptions == {"out of memory"}

Range(s) == {s[k] : k \in 1..Len(s)}

Perms(S) ==
    {p \in [1..Cardinality(S) -> S] : \A a, b \in 1..Cardinality(S) : p[a] = p[b] => a = b}

(***************************************************************************)
(* app/services/code_analyzer.py: FunctionLocator                          *)
(***************************************************************************)
Keywords == {"if", "for", "while", "do", "switch", "case", "default",
             "break", "continue", "return", "goto", "sizeof"}

FallbackTypes == {"int", "void", "char", "float", "double"}

\* list(set(re.findall(...))): the distinct matched names, in an order the
\* hash seed decides.
_fallback_function_extraction(code) ==
    Perms({code[k].name : k \in {n \in 1..Len(code) : code[n].rtype \in FallbackTypes}})

FilterNames_all(texts, function_names) == function_names \o texts

RECURSIVE FilterNames(_, _)
FilterNames(texts, function_names) ==
    IF texts = <<>> THEN function_names
    ELSE LET func_name == Head(texts)
             keep == /\ func_name # ""
                     /\ func_name \notin Range(function_names)
                     /\ SubSeq(func_name, 1, 1) # "_"
                     /\ func_name \notin Keywords
         IN FilterNames(Tail(texts),
                        IF keep THEN Append(function_names, func_name) ELSE function_names)

\* What a call does: it returns a list of names or it raises.
Returned(names) == [kind |-> "return", names |-> names, exc |-> None]
Raised(e) == [kind |-> "raise", names |-> <<>>, exc |-> e]
\* ... or it has not been made yet.
NoCall == [kind |-> "none", names |-> <<>>, exc |-> None]

\* How the ast-grep executable can behave in one call of find_functions:
\*   absent     no path answers `--version` with exit code 0 (lines 45-59)
\*   timeout    subprocess.run raises TimeoutExpired (line 82)
\*   nonzero    the run ends with a non-zero exit code
\*   empty      exit code 0 and nothing on stdout
\*   malformed  stdout is not JSON: json.loads raises JSONDecodeError
\*   misshapen  stdout is JSON of another shape, e.g. an object: indexing a
\*              match raises TypeError
\*   matches    stdout is the JSON array of the matches, one per definition,
\*              in source order
ToolOutcomes == {"absent", "timeout", "nonzero", "empty", "malformed", "misshapen", "matches"}

\* The outcomes a deployment with / without the executable can see.
ToolRuns(tool) == IF tool THEN ToolOutcomes \ {"absent"} ELSE {"absent"}

Fallback(code) == {Returned(names) : names \in _fallback_function_extraction(code)}

\* One match of the tool's JSON array, by what the code finds in it:
\*   dict       match['meta_variables']['$FUNCNAME'] is a dict with 'text'
\*   list       ... is a list whose first element is such a dict
\*   scalar     ... is another true value, a string say: str() of it is taken
\*   emptylist  ... is []: the name is ''
\*   strlist    ... is a list of strings: .get raises AttributeError
\*   nokey      the match has no 'meta_variables' or no '$FUNCNAME' in it
MatchShapes == {"dict", "list", "scalar", "emptylist", "strlist", "nokey"}

Match(shape, text) == [shape |-> shape, text |-> text]

\* Line 93
HasCapture(match) == match.shape # "nokey"

\* Lines 94-100: func_name
Captured(match) ==
    CASE match.shape \in {"dict", "list", "scalar"} -> match.text
      [] match.shape = "emptylist" -> ""

\* The func_name of each match that has one, in the order of the matches
Candidates(matches) ==
    LET keyed == SelectSeq(matches, HasCapture)
    IN [k \in 1..Len(keyed) |-> Captured(keyed[k])]

\* The matches of a run on `code` that goes well: one per definition, in
\* source order.
ToolMatches(code) == [k \in 1..Len(code) |-> Match("dict", code[k].name)]

\* Lines 84-126: the branch on the completed run, with the handler of line
\* 118 for (JSONDecodeError, KeyError, IndexError).
ParseMatches(code, outcome, matches) ==
    CASE outcome \in {"nonzero", "empty"} -> Fallback(code)
      [] outcome = "malformed" -> Fallback(code)
      [] outcome = "misshapen" -> {Raised("TypeError")}
      [] outcome = "matches" ->
            IF \E k \in 1..Len(matches) : matches[k].shape = "strlist"
            THEN {Raised("AttributeError")}
            ELSE LET function_names == FilterNames(Candidates(matches), <<>>)
                 IN IF function_names # <<>> THEN {Returned(function_names)}
                    ELSE Fallback(code)

\* Lines 61-133: the try block under the outer handler
RunTool(code, outcome, matches) ==
    IF outcome = "timeout" THEN {Raised("TimeoutExpired")}
    ELSE ParseMatches(code, outcome, matches)

find_functions_unguarded(code, outcome, matches) ==
    IF outcome = "absent" THEN Fallback(code)
    ELSE RunTool(code, outcome, matches)

\* The results find_functions can have for `code` when the tool behaves as
\* `outcome` (and prints `matches`, if that is what it does).  Whatever the
\* try block raises, the handler of line 135 answers with the fallback.
find_functions(code, outcome, matches) ==
    IF outcome = "absent" THEN Fallback(code)
    ELSE UNION {IF r.kind = "raise" THEN Fallback(code) ELSE {r} :
                   r \in RunTool(code, outcome, matches)}

(***************************************************************************)
(* app/services/code_analyzer.py: ControlFlowExtractor, DiagramSynthesizer *)
(***************************************************************************)
RECURSIVE Join(_)
Join(lines) ==
    IF Len(lines) = 1 THEN lines[1]
    ELSE lines[1] \o "\n" \o Join(Tail(lines))

N_even(node_counter) == "N" \o ToString(2 * (node_counter \div 2))

\* f"N{node_counter}"
N(node_counter) == "N" \o ToString(node_counter)

\* Each _add_*_node returns <<lines, current node, node counter>>.
_add_if_node(lines, prev_node, node_counter) ==
    LET decision_node == N(node_counter)
        then_node == N(node_counter + 1)
        merge_node == N(node_counter + 2)
    IN <<lines \o <<"    " \o prev_node \o " --> " \o decision_node \o "{If condition}",
                    "    " \o decision_node \o " -->|Yes| " \o then_node \o "[Then branch]",
                    "    " \o decision_node \o " --> " \o merge_node \o "[Continue]">>,
         merge_node, node_counter + 3>>

_add_for_node_noback(lines, prev_node, node_counter) ==
    LET loop_node == N(node_counter)
        body_node == N(node_counter + 1)
        exit_node == N(node_counter + 2)
    IN <<lines \o <<"    " \o prev_node \o " --> " \o loop_node \o "{For loop}",
                    "    " \o loop_node \o " -->|Continue| " \o body_node \o "[Loop body]",
                    "    " \o body_node \o " --> " \o exit_node,
                    "    " \o loop_node \o " -->|Exit| " \o exit_node \o "[Continue]">>,
         exit_node, node_counter + 3>>

_add_for_node(lines, prev_node, node_counter) ==
    LET loop_node == N(node_counter)
        body_node == N(node_counter + 1)
        exit_node == N(node_counter + 2)
    IN <<lines \o <<"    " \o prev_node \o " --> " \o loop_node \o "{For loop}",
                    "    " \o loop_node \o " -->|Continue| " \o body_node \o "[Loop body]",
                    "    " \o body_node \o " --> " \o loop_node,
                    "    " \o loop_node \o " -->|Exit| " \o exit_node \o "[Continue]">>,
         exit_node, node_counter + 3>>

_add_while_node(lines, prev_node, node_counter) ==
    LET loop_node == N(node_counter)
        body_node == N(node_counter + 1)
        exit_node == N(node_counter + 2)
    IN <<lines \o <<"    " \o prev_node \o " --> " \o loop_node \o "{While condition}",
                    "    " \o loop_node \o " -->|True| " \o body_node \o "[Loop body]",
                    "    " \o body_node \o " --> " \o loop_node,
                    "    " \o loop_node \o " -->|False| " \o exit_node \o "[Continue]">>,
         exit_node, node_counter + 3>>

_add_return_node(lines, prev_node, node_counter) ==
    LET return_node == N(node_counter)
        end_node == N(node_counter + 1)
    IN <<lines \o <<"    " \o prev_node \o " --> " \o return_node \o "[Return]",
                    "    " \o return_node \o " --> " \o end_node \o "[Function ends]">>,
         end_node, node_counter + 2>>

\* How one run of ast-grep in _analyze_control_structures can end:
\*   matches    exit code 0 and the JSON array of the matches
\*   nonzero    another exit code: the `if` skips the run's output
\*   malformed  exit code 0 and output json.loads rejects: `except: pass`
\*   timeout    the run takes more than 5 s: subprocess.run raises
\*              TimeoutExpired, outside the inner try
QueryOutcomes == {"matches", "nonzero", "malformed", "timeout"}

\* The four queries, in the order the code runs them
QueryKinds == <<"if", "for", "while", "return">>

Runs == [1..4 -> QueryOutcomes]

\* The tool answers every query
AllMatch == [k \in 1..4 |-> "matches"]

\* What _analyze_control_structures does: it returns a list or it raises.
Analyzed(structures) == [kind |-> "return", structures |-> structures]
AnalysisRaised == [kind |-> "raise", structures |-> <<>>]

\* The matches of one pattern in the function's text, one tuple per match
Matches(body, kind) == SelectSeq(body, LAMBDA s : s = kind)

\* The k-th query, ending as `outcome`, with `structures` found so far
Query(body, k, outcome, structures) ==
    CASE outcome = "matches" -> Analyzed(structures \o Matches(body, QueryKinds[k]))
      [] outcome \in {"nonzero", "malformed"} -> Analyzed(structures)
      [] outcome = "timeout" -> AnalysisRaised

RECURSIVE RunQueries(_, _, _, _)
RunQueries(body, runs, k, structures) ==
    IF k > 4 THEN Analyzed(structures)
    ELSE LET r == CHOOSE v \in {Query(body, k, runs[k], structures)} : TRUE
         IN IF r.kind = "raise" THEN r ELSE RunQueries(body, runs, k + 1, r.structures)

\* Each query appends its matches, so the list is grouped by kind.
_analyze_control_structures(body, runs) == RunQueries(body, runs, 1, <<>>)

\* The body of the first definition named function_name; without one the
\* stub "name() { /* Function not found */ }", which has no structure.
_extract_function_code(code, function_name) ==
    LET hits == {k \in 1..Len(code) : code[k].name = function_name}
    IN IF hits = {} THEN <<>>
       ELSE code[CHOOSE k \in hits : \A m \in hits : k <= m].body

\* The first position at or after k where sub occurs in l; 0 if there is none
RECURSIVE Find(_, _, _)
Find(l, sub, k) ==
    IF k + Len(sub) - 1 > Len(l) THEN 0
    ELSE IF SubSeq(l, k, k + Len(sub) - 1) = sub THEN k
    ELSE Find(l, sub, k + 1)

\* sub in s
Contains(s, sub) ==
    \E k \in 1..(Len(s) - Len(sub) + 1) : SubSeq(s, k, k + Len(sub) - 1) = sub

\* text.split('\n')
RECURSIVE SplitLines(_)
SplitLines(text) ==
    LET n == Find(text, "\n", 1)
    IN IF n = 0 THEN <<text>>
       ELSE <<SubSeq(text, 1, n - 1)>> \o SplitLines(SubSeq(text, n + 1, Len(text)))

\* _extract_function_code on the text itself.  The state of its scan:
ScanStart == [brace_count |-> 0, in_string |-> FALSE, escape_next |-> FALSE, found |-> FALSE]

ScanChar_noescape(st, char) ==
    IF char = "\"" THEN [st EXCEPT !.in_string = ~st.in_string]
    ELSE IF ~st.in_string
    THEN IF char = "{" THEN [st EXCEPT !.brace_count = @ + 1]
         ELSE IF char = "}"
         THEN [st EXCEPT !.brace_count = @ - 1, !.found = (st.brace_count - 1 = 0)]
         ELSE st
    ELSE st

\* One turn of `for i in range(start_pos, len(code))` on code[i]; `found`
\* says that the turn returned.
ScanChar(st, char) ==
    IF st.escape_next THEN [st EXCEPT !.escape_next = FALSE]
    ELSE IF char = "\\" THEN [st EXCEPT !.escape_next = TRUE]
    ELSE IF char = "\"" THEN [st EXCEPT !.in_string = ~st.in_string]
    ELSE IF ~st.in_string
    THEN IF char = "{" THEN [st EXCEPT !.brace_count = @ + 1]
         ELSE IF char = "}"
         THEN [st EXCEPT !.brace_count = @ - 1, !.found = (st.brace_count - 1 = 0)]
         ELSE st
    ELSE st

\* The position at which the loop returns, from position i on in state st;
\* 0 if it runs off the end of the text.
RECURSIVE Scan(_, _, _)
Scan(code, i, st) ==
    IF i > Len(code) THEN 0
    ELSE LET nxt == ScanChar(st, SubSeq(code, i, i))
         IN IF nxt.found THEN i ELSE Scan(code, i + 1, nxt)

\* Where re.search finds the header of function_name (0 for no match).  The
\* texts here write every header as "int <name>() {".
Header(function_name) == "int " \o function_name \o "() {"

HeaderMatch(code, function_name) == Find(code, Header(function_name), 1)

_extract_function_code_text(code, function_name) ==
    LET start_pos == HeaderMatch(code, function_name)
        i == Scan(code, start_pos, ScanStart)
    IN IF start_pos = 0 THEN function_name \o "() { /* Function not found */ }"
       ELSE IF i # 0 THEN SubSeq(code, start_pos, i)
       ELSE SubSeq(code, start_pos, Len(code))

\* One turn of `for struct_type, details in structures`, from
\* st = <<diagram_lines, current_node, node_counter>>
AddNode(struct_type, st) ==
    CASE struct_type = "if" -> _add_if_node(st[1], st[2], st[3])
      [] struct_type = "for" -> _add_for_node(st[1], st[2], st[3])
      [] struct_type = "while" -> _add_while_node(st[1], st[2], st[3])
      [] struct_type = "return" -> _add_return_node(st[1], st[2], st[3])

\* The loop over structures[k..]: each turn works on the value the turn
\* before it left.
RECURSIVE BuildFlow(_, _, _)
BuildFlow(structures, k, st) ==
    IF k > Len(structures) THEN st
    ELSE BuildFlow(structures, k + 1, CHOOSE nxt \in {AddNode(structures[k], v) : v \in {st}} : TRUE)

\* What _generate_mermaid_from_ast does: it returns a text or it raises.
Drawn(text) == [kind |-> "return", text |-> text]
DrawRaised == [kind |-> "raise", text |-> ""]

\* Lines 222-252: the diagram of what the analysis returned
Draw(analysis, function_name) ==
    LET diagram_lines == <<"flowchart TD", "    START([" \o function_name \o " starts])">>
    IN IF analysis.kind = "raise" THEN DrawRaised
       ELSE IF analysis.structures # <<>>
       THEN LET st == BuildFlow(analysis.structures, 1, <<diagram_lines, "START", 0>>)
            IN Drawn(Join(Append(st[1],
                                 "    " \o st[2] \o " --> END([" \o function_name \o " ends])")))
       ELSE Drawn(Join(diagram_lines \o <<"    START --> PROCESS[Process]",
                                         "    PROCESS --> END([Function ends])">>))

\* With the executable found (line 207 otherwise raises); a raise of
\* _analyze_control_structures passes through the finally of line 254.
_generate_mermaid_from_ast(code, function_name, runs) ==
    CHOOSE drawn \in
        {Draw(analysis, function_name) :
            analysis \in {_analyze_control_structures(
                              _extract_function_code(code, function_name), runs)}} : TRUE

_generate_basic_mermaid(function_name) ==
    Join(<<"flowchart TD",
           "    A[" \o function_name \o "] --> B[Process]",
           "    B --> C[Return]">>)

\* Without the tool _generate_mermaid_from_ast raises at once; whenever
\* it raises, the handler of line 155 returns the basic diagram.
generate_mermaid_diagram(code, function_name, tool, runs) ==
    IF ~tool THEN _generate_basic_mermaid(function_name)
    ELSE CHOOSE text \in
             {IF drawn.kind = "raise" THEN _generate_basic_mermaid(function_name) ELSE drawn.text :
                 drawn \in {_generate_mermaid_from_ast(code, function_name, runs)}} : TRUE

\* The diagram the worker stores when generate_mermaid_diagram raised.
ErrorDiagram(func_name, e) ==
    Join(<<"flowchart TD",
           "    A[" \o func_name \o "] --> B[Error: " \o e \o "]">>)

(***************************************************************************)
(* app/services/code_analyzer.py: DiagramValidator                         *)
(***************************************************************************)
Whitespace == {" ", "\n", "\t"}

\* str.strip()
RECURSIVE strip(_)
strip(text) ==
    IF text = "" THEN ""
    ELSE IF SubSeq(text, 1, 1) \in Whitespace THEN strip(SubSeq(text, 2, Len(text)))
    ELSE IF SubSeq(text, Len(text), Len(text)) \in Whitespace
    THEN strip(SubSeq(text, 1, Len(text) - 1))
    ELSE text

\* str.startswith(prefix)
startswith(text, prefix) ==
    Len(text) >= Len(prefix) /\ SubSeq(text, 1, Len(prefix)) = prefix

_basic_mermaid_validation_declared(mermaid_code) ==
    startswith(SplitLines(strip(mermaid_code))[1], "flowchart")

_basic_mermaid_validation(mermaid_code) ==
    LET lines == SplitLines(strip(mermaid_code))
    IN /\ startswith(lines[1], "flowchart")
       /\ \E k \in 2..Len(lines) :
             Contains(strip(lines[k]), "-->") \/ Contains(strip(lines[k]), "---")

\* What running `npx --yes @mermaid-js/mermaid-cli@latest ...` can do:
\*   absent   there is no npx: subprocess.run raises FileNotFoundError
\*   accepts  the run ends with exit code 0
\*   rejects  the run ends with another exit code
\*   timeout  the run takes more than 10 s: TimeoutExpired
CliOutcomes == {"absent", "accepts", "rejects", "timeout"}

validate_mermaid_syntax(mermaid_code, cli) ==
    CASE cli = "absent" -> _basic_mermaid_validation(mermaid_code)
      [] cli = "accepts" -> TRUE
      [] cli = "rejects" -> FALSE
      [] cli = "timeout" -> FALSE

(***************************************************************************)
(* app/services/job_service.py                                             *)
(***************************************************************************)
InitPipe ==
    /\ jobs = <<>>
    /\ job_queue = <<>>
    /\ lock = 0
    /\ worker_thread = 1
    /\ alive = {1}
    /\ pc = [t \in Threads |-> IF t = 1 THEN "dequeue" ELSE "unstarted"]
    /\ w_job = [t \in Threads |-> 0]
    /\ w_functions = [t \in Threads |-> <<>>]
    /\ w_i = [t \in Threads |-> 0]
    /\ w_ret = [t \in Threads |-> "dequeue"]
    /\ w_exc = [t \in Threads |-> None]
    /\ clock = 0
    /\ events = <<>>
    /\ can_schedule \in BOOLEAN
    /\ ast_grep \in BOOLEAN

env_vars == <<can_schedule, ast_grep>>
local_vars == <<w_job, w_functions, w_i, w_ret, w_exc>>

\* str(uuid.uuid4()): an id no job has yet
NewId == Len(jobs) + 1

create_job(code) ==
    /\ Len(jobs) < MaxJobs
    /\ lock = 0
    /\ jobs' = Append(jobs, Job(NewId, code))
    /\ job_queue' = Append(job_queue, NewId)
    /\ UNCHANGED <<lock, worker_thread, alive, pc, local_vars, clock, events, env_vars>>

\* get_job / get_all_jobs hand out the Job objects themselves; a call only
\* needs the lock to be free and changes nothing.
get_job(job_id) ==
    /\ lock = 0
    /\ UNCHANGED pipe_vars

\* The message update_job builds from the job object, after the lock is released.
update_message(job) ==
    [type |-> "job_update", job_id |-> job.id, status |-> job.status,
     total_functions |-> job.total_functions,
     processed_functions |-> job.processed_functions,
     updated_at |-> ToString(job.updated_at)]

ShouldStart_always == TRUE

\* start_worker starts a thread only when none is alive.
ShouldStart == worker_thread = 0 \/ worker_thread \notin alive

start_worker ==
    /\ IF ShouldStart /\ Threads \ alive # {}
       THEN LET t == CHOOSE x \in Threads \ alive : \A y \in Threads \ alive : x <= y
            IN /\ worker_thread' = t
               /\ alive' = alive \cup {t}
               /\ pc' = [pc EXCEPT ![t] = "dequeue"]
       ELSE UNCHANGED <<worker_thread, alive, pc>>
    /\ UNCHANGED <<jobs, job_queue, lock, local_vars, clock, events, env_vars>>

\* update_job(job), called by thread t; control returns to `ret`.
CallUpdate(t, ret) ==
    /\ pc' = [pc EXCEPT ![t] = "u_store"]
    /\ w_ret' = [w_ret EXCEPT ![t] = ret]

\* with self.lock: job.updated_at = datetime.now(); self.jobs[job.id] = job
\* (the entry already refers to this object)
U_Store(t) ==
    /\ pc[t] = "u_store"
    /\ lock = 0
    /\ lock' = t
    /\ clock' = clock + 1
    /\ jobs' = [jobs EXCEPT ![w_job[t]].updated_at = clock + 1]
    /\ pc' = [pc EXCEPT ![t] = "u_unlock"]
    /\ UNCHANGED <<job_queue, worker_thread, alive, local_vars, events, env_vars>>

U_Unlock_late(t) ==
    /\ pc[t] = "u_unlock"
    /\ pc' = [pc EXCEPT ![t] = "u_notify"]
    /\ UNCHANGED <<jobs, job_queue, lock, worker_thread, alive, local_vars, clock, events, env_vars>>

\* leaving the with block
U_Unlock(t) ==
    /\ pc[t] = "u_unlock"
    /\ lock' = 0
    /\ pc' = [pc EXCEPT ![t] = "u_notify"]
    /\ UNCHANGED <<jobs, job_queue, worker_thread, alive, local_vars, clock, events, env_vars>>

\* The try block of update_job: with a manager and a loop to schedule on,
\* the message is built and handed to asyncio.create_task; otherwise
\* (get_manager() is None, or create_task raises RuntimeError because the
\* calling thread runs no event loop, which the except logs) nothing is
\* emitted.  Which of the two happens is a property of the deployment, the
\* same for every call.
U_Notify(t) ==
    /\ pc[t] = "u_notify"
    /\ events' = IF can_schedule THEN Append(events, update_message(jobs[w_job[t]]))
                 ELSE events
    /\ pc' = [pc EXCEPT ![t] = w_ret[t]]
    /\ UNCHANGED <<jobs, job_queue, lock, worker_thread, alive, local_vars, clock, env_vars>>

QueuePop_keep == job_queue

\* job_queue.pop(0)
QueuePop == Tail(job_queue)
QueueTake == Head(job_queue)

\* The while True loop comes round: job_id = None; with self.lock: the
\* thread takes the lock as soon as it is free.  Nothing makes the thread
\* wait for the queue to have an entry.
W_Lock(t) ==
    /\ pc[t] = "dequeue"
    /\ lock = 0
    /\ lock' = t
    /\ pc' = [pc EXCEPT ![t] = "poll"]
    /\ UNCHANGED <<jobs, job_queue, worker_thread, alive, local_vars, clock, events, env_vars>>

\* Inside the with block: if self.job_queue: job_id = self.job_queue.pop(0);
\* the lock is released.  `if job_id:` then sends the thread into the job or,
\* with nothing popped, straight back to the top of the loop.
W_Dequeue(t) ==
    /\ pc[t] = "poll"
    /\ lock' = 0
    /\ IF job_queue # <<>>
       THEN /\ w_job' = [w_job EXCEPT ![t] = QueueTake]
            /\ job_queue' = QueuePop
            /\ pc' = [pc EXCEPT ![t] = "get"]
       ELSE /\ pc' = [pc EXCEPT ![t] = "dequeue"]
            /\ UNCHANGED <<w_job, job_queue>>
    /\ UNCHANGED <<jobs, worker_thread, alive, w_functions, w_i, w_ret, w_exc,
                   clock, events, env_vars>>

W_Begin_skip(t) ==
    /\ pc[t] = "get"
    /\ lock = 0
    /\ pc' = [pc EXCEPT ![t] = "find"]
    /\ UNCHANGED <<jobs, job_queue, lock, worker_thread, alive, local_vars,
                   clock, events, env_vars>>

\* job = self.get_job(job_id); if job: _process_job(job, analyzer), whose
\* first statement is job.status = JobStatus.IN_PROGRESS, then update_job.
W_Begin(t) ==
    /\ pc[t] = "get"
    /\ lock = 0
    /\ IF w_job[t] \in DOMAIN jobs
       THEN /\ jobs' = [jobs EXCEPT ![w_job[t]].status = IN_PROGRESS]
            /\ CallUpdate(t, "find")
            /\ UNCHANGED w_job
       ELSE /\ pc' = [pc EXCEPT ![t] = "dequeue"]
            /\ w_job' = [w_job EXCEPT ![t] = 0]
            /\ UNCHANGED <<jobs, w_ret>>
    /\ UNCHANGED <<job_queue, lock, worker_thread, alive, w_functions, w_i, w_exc,
                   clock, events, env_vars>>

\* functions = analyzer.find_functions(job.code);
\* job.total_functions = len(functions); update_job.  A raise (one that
\* comes from the interpreter itself, such as MemoryError, and strikes the
\* fallback as well) goes to the handler of _process_job.
W_FindFunctions(t) ==
    /\ pc[t] = "find"
    /\ \/ \E outcome \in ToolRuns(ast_grep) :
            \E r \in find_functions(jobs[w_job[t]].code, outcome, ToolMatches(jobs[w_job[t]].code)) :
                /\ r.kind = "return"
                /\ w_functions' = [w_functions EXCEPT ![t] = r.names]
                /\ w_i' = [w_i EXCEPT ![t] = 0]
                /\ jobs' = [jobs EXCEPT ![w_job[t]].total_functions = Len(r.names)]
                /\ CallUpdate(t, "loop")
                /\ UNCHANGED w_exc
       \/ \E e \in Exceptions :
            /\ w_exc' = [w_exc EXCEPT ![t] = e]
            /\ pc' = [pc EXCEPT ![t] = "job_except"]
            /\ UNCHANGED <<jobs, w_functions, w_i, w_ret>>
    /\ UNCHANGED <<job_queue, lock, worker_thread, alive, w_job, clock, events, env_vars>>

W_Generate_replace(t) ==
    /\ pc[t] = "loop"
    /\ w_i[t] < Len(w_functions[t])
    /\ w_i' = [w_i EXCEPT ![t] = w_i[t] + 1]
    /\ LET func_name == w_functions[t][w_i[t] + 1]
           job == jobs[w_job[t]]
       IN /\ jobs' = [jobs EXCEPT ![w_job[t]].functions =
                         [k \in 1..(w_i[t] + 1) |->
                             FunctionResult(func_name,
                                 generate_mermaid_diagram(job.code, func_name, ast_grep, AllMatch))]]
          /\ pc' = [pc EXCEPT ![t] = "incr"]
          /\ UNCHANGED w_exc
    /\ UNCHANGED <<job_queue, lock, worker_thread, alive, w_job, w_functions, w_ret,
                   clock, events, env_vars>>

\* The for loop takes the next name; generate_mermaid_diagram returns and
\* the result is appended to job.functions, or it raises.
W_Generate(t) ==
    /\ pc[t] = "loop"
    /\ w_i[t] < Len(w_functions[t])
    /\ w_i' = [w_i EXCEPT ![t] = w_i[t] + 1]
    /\ LET func_name == w_functions[t][w_i[t] + 1]
           job == jobs[w_job[t]]
       IN \/ /\ jobs' = [jobs EXCEPT ![w_job[t]].functions =
                            Append(job.functions,
                                   FunctionResult(func_name,
                                       generate_mermaid_diagram(job.code, func_name, ast_grep, AllMatch)))]
             /\ pc' = [pc EXCEPT ![t] = "incr"]
             /\ UNCHANGED w_exc
          \/ \E e \in Exceptions :
                /\ w_exc' = [w_exc EXCEPT ![t] = e]
                /\ pc' = [pc EXCEPT ![t] = "func_except"]
                /\ UNCHANGED jobs
    /\ UNCHANGED <<job_queue, lock, worker_thread, alive, w_job, w_functions, w_ret,
                   clock, events, env_vars>>

W_FuncExcept_drop(t) ==
    /\ pc[t] = "func_except"
    /\ w_exc' = [w_exc EXCEPT ![t] = None]
    /\ pc' = [pc EXCEPT ![t] = "incr"]
    /\ UNCHANGED <<jobs, job_queue, lock, worker_thread, alive, w_job, w_functions, w_i, w_ret,
                   clock, events, env_vars>>

W_FuncExcept_fail(t) ==
    /\ pc[t] = "func_except"
    /\ jobs' = [jobs EXCEPT ![w_job[t]].status = FAILED]
    /\ pc' = [pc EXCEPT ![t] = "set_error"]
    /\ UNCHANGED <<job_queue, lock, worker_thread, alive, local_vars, clock, events, env_vars>>

\* except Exception as e (per function): the result with the error marker
\* is appended.
W_FuncExcept(t) ==
    /\ pc[t] = "func_except"
    /\ LET func_name == w_functions[t][w_i[t]]
       IN jobs' = [jobs EXCEPT ![w_job[t]].functions =
                      Append(@, FunctionResult(func_name, ErrorDiagram(func_name, w_exc[t])))]
    /\ w_exc' = [w_exc EXCEPT ![t] = None]
    /\ pc' = [pc EXCEPT ![t] = "incr"]
    /\ UNCHANGED <<job_queue, lock, worker_thread, alive, w_job, w_functions, w_i, w_ret,
                   clock, events, env_vars>>

W_Incr_twice(t) ==
    /\ pc[t] = "incr"
    /\ jobs' = [jobs EXCEPT ![w_job[t]].processed_functions = @ + 2]
    /\ CallUpdate(t, "loop")
    /\ UNCHANGED <<job_queue, lock, worker_thread, alive, w_job, w_functions, w_i, w_exc,
                   clock, events, env_vars>>

\* job.processed_functions += 1; update_job (on either path)
W_Incr(t) ==
    /\ pc[t] = "incr"
    /\ jobs' = [jobs EXCEPT ![w_job[t]].processed_functions = @ + 1]
    /\ CallUpdate(t, "loop")
    /\ UNCHANGED <<job_queue, lock, worker_thread, alive, w_job, w_functions, w_i, w_exc,
                   clock, events, env_vars>>

\* The loop is exhausted: job.status = JobStatus.SUCCESS; update_job.
W_Success(t) ==
    /\ pc[t] = "loop"
    /\ w_i[t] = Len(w_functions[t])
    /\ jobs' = [jobs EXCEPT ![w_job[t]].status = SUCCESS]
    /\ CallUpdate(t, "done")
    /\ UNCHANGED <<job_queue, lock, worker_thread, alive, w_job, w_functions, w_i, w_exc,
                   clock, events, env_vars>>

W_JobExcept_halt(t) ==
    /\ pc[t] = "job_except"
    /\ pc' = [pc EXCEPT ![t] = "halted"]
    /\ UNCHANGED <<jobs, job_queue, lock, worker_thread, alive, local_vars, clock, events, env_vars>>

\* except Exception as e (per job): job.status = JobStatus.FAILED
W_JobExcept(t) ==
    /\ pc[t] = "job_except"
    /\ jobs' = [jobs EXCEPT ![w_job[t]].status = FAILED]
    /\ pc' = [pc EXCEPT ![t] = "set_error"]
    /\ UNCHANGED <<job_queue, lock, worker_thread, alive, local_vars, clock, events, env_vars>>

W_SetError_forget(t) ==
    /\ pc[t] = "set_error"
    /\ w_exc' = [w_exc EXCEPT ![t] = None]
    /\ CallUpdate(t, "done")
    /\ UNCHANGED <<jobs, job_queue, lock, worker_thread, alive, w_job, w_functions, w_i,
                   clock, events, env_vars>>

\* job.error_message = str(e); update_job
W_SetError(t) ==
    /\ pc[t] = "set_error"
    /\ jobs' = [jobs EXCEPT ![w_job[t]].error_message = w_exc[t]]
    /\ w_exc' = [w_exc EXCEPT ![t] = None]
    /\ CallUpdate(t, "done")
    /\ UNCHANGED <<job_queue, lock, worker_thread, alive, w_job, w_functions, w_i,
                   clock, events, env_vars>>

\* _process_job returns; the while loop starts over with job_id = None.
W_Return(t) ==
    /\ pc[t] = "done"
    /\ pc' = [pc EXCEPT ![t] = "dequeue"]
    /\ w_job' = [w_job EXCEPT ![t] = 0]
    /\ w_functions' = [w_functions EXCEPT ![t] = <<>>]
    /\ w_i' = [w_i EXCEPT ![t] = 0]
    /\ UNCHANGED <<jobs, job_queue, lock, worker_thread, alive, w_ret, w_exc,
                   clock, events, env_vars>>

Worker(t) ==
    \/ W_Lock(t)
    \/ W_Dequeue(t)
    \/ W_Begin(t)
    \/ W_FindFunctions(t)
    \/ W_Generate(t)
    \/ W_FuncExcept(t)
    \/ W_Incr(t)
    \/ W_Success(t)
    \/ W_JobExcept(t)
    \/ W_SetError(t)
    \/ W_Return(t)
    \/ U_Store(t)
    \/ U_Unlock(t)
    \/ U_Notify(t)

\* One step of the worker threads
WorkerStep == \E t \in Threads : Worker(t)

(***************************************************************************)
(* app/main.py: ConnectionManager and the websocket endpoint               *)
(***************************************************************************)
InitBus ==
    /\ active_connections = <<>>
    /\ ws_state = [ws \in Sockets |-> "new"]
    /\ b_pc = [m \in Broadcasts |-> "unscheduled"]
    /\ b_i = [m \in Broadcasts |-> 0]
    /\ b_disconnected = [m \in Broadcasts |-> <<>>]
    /\ b_start = [m \in Broadcasts |-> {}]
    /\ b_tried = [m \in Broadcasts |-> {}]
    /\ received = [ws \in Sockets |-> <<>>]

\* No call of the analyzer under study
IdleLocator ==
    /\ l_code = <<>>
    /\ l_tool = "absent"
    /\ l_matches = <<>>
    /\ l_result = NoCall

IdleSynth ==
    /\ s_code = <<>>
    /\ s_name = ""
    /\ s_tool = FALSE
    /\ s_pc = "done"
    /\ s_q = 0
    /\ s_structures = <<>>
    /\ s_i = 0
    /\ s_lines = <<>>
    /\ s_node = ""
    /\ s_counter = 0
    /\ s_diagram = ""

IdleExtract ==
    /\ x_items = <<>>
    /\ x_code = ""
    /\ x_name = ""
    /\ x_result = ""

IdleValidate ==
    /\ v_code = ""
    /\ v_cli = "absent"
    /\ v_called = FALSE
    /\ v_result = FALSE

InitAnalyzer == IdleLocator /\ IdleSynth /\ IdleExtract /\ IdleValidate

\* No request is being handled
NoResponse == [route |-> "none", body |-> <<>>]

InitReader ==
    /\ r_route = "none"
    /\ r_held = {}
    /\ r_seen = NoResponse
    /\ h_stored = [id \in 1..MaxJobs |-> {}]

Init == InitPipe /\ InitBus /\ InitAnalyzer /\ InitReader

\* list.remove(x): the list without the first occurrence of x
RECURSIVE Remove(_, _)
Remove(list, x) ==
    IF list = <<>> THEN <<>>
    ELSE IF Head(list) = x THEN Tail(list)
    ELSE <<Head(list)>> \o Remove(Tail(list), x)

\* ConnectionManager.disconnect, as a function of the list
disconnect(list, websocket) ==
    IF websocket \in Range(list) THEN Remove(list, websocket) ELSE list

\* for conn in disconnected: self.disconnect(conn)
RECURSIVE CleanUp(_, _)
CleanUp(list, disconnected) ==
    IF disconnected = <<>> THEN list
    ELSE CleanUp(disconnect(list, Head(disconnected)), Tail(disconnected))

\* job_status_websocket calls manager.connect: accept, then append.
connect(websocket) ==
    /\ ws_state[websocket] = "new"
    /\ ws_state' = [ws_state EXCEPT ![websocket] = "open"]
    /\ active_connections' = Append(active_connections, websocket)
    /\ UNCHANGED <<b_pc, b_i, b_disconnected, b_start, b_tried, received>>

\* The client goes away: from now on send_json raises and receive_text
\* raises WebSocketDisconnect.
ClientClose(websocket) ==
    /\ ws_state[websocket] = "open"
    /\ ws_state' = [ws_state EXCEPT ![websocket] = "closed"]
    /\ UNCHANGED <<active_connections, b_pc, b_i, b_disconnected, b_start, b_tried, received>>

\* job_status_websocket: except WebSocketDisconnect: manager.disconnect(websocket)
EndpointDisconnect(websocket) ==
    /\ ws_state[websocket] = "closed"
    /\ ws_state' = [ws_state EXCEPT ![websocket] = "gone"]
    /\ active_connections' = disconnect(active_connections, websocket)
    /\ UNCHANGED <<b_pc, b_i, b_disconnected, b_start, b_tried, received>>

\* asyncio.create_task(manager.broadcast(update_message)): the next message
ScheduleBroadcast(m) ==
    /\ b_pc[m] = "unscheduled"
    /\ \A k \in Broadcasts : k < m => b_pc[k] # "unscheduled"
    /\ b_pc' = [b_pc EXCEPT ![m] = "running"]
    /\ UNCHANGED <<active_connections, ws_state, b_i, b_disconnected, b_start, b_tried,
                   received>>

\* The event loop starts tasks in the order they were created.
MayRun(m) ==
    /\ b_pc[m] = "running"
    /\ \A k \in Broadcasts : (k < m /\ b_pc[k] = "running") => b_i[k] > 0

\* One turn of `for connection in self.active_connections`: the list
\* iterator yields the element at its position in the list as it is now,
\* and the task is suspended in await connection.send_json(message), which
\* delivers or raises.
B_Send(m) ==
    /\ MayRun(m)
    /\ b_i[m] < Len(active_connections)
    /\ LET connection == active_connections[b_i[m] + 1]
       IN /\ b_tried' = [b_tried EXCEPT ![m] = @ \cup {connection}]
          /\ IF ws_state[connection] = "open"
             THEN /\ received' = [received EXCEPT ![connection] = Append(@, m)]
                  /\ UNCHANGED b_disconnected
             ELSE /\ b_disconnected' = [b_disconnected EXCEPT ![m] = Append(@, connection)]
                  /\ UNCHANGED received
    /\ b_start' = [b_start EXCEPT ![m] = IF b_i[m] = 0 THEN Range(active_connections) ELSE @]
    /\ b_i' = [b_i EXCEPT ![m] = @ + 1]
    /\ UNCHANGED <<active_connections, ws_state, b_pc>>

\* The iterator is exhausted: the clean-up loop runs and the task ends.
B_Finish(m) ==
    /\ MayRun(m)
    /\ b_i[m] >= Len(active_connections)
    /\ active_connections' = CleanUp(active_connections, b_disconnected[m])
    /\ b_pc' = [b_pc EXCEPT ![m] = "done"]
    /\ b_start' = [b_start EXCEPT ![m] = IF b_i[m] = 0 THEN Range(active_connections) ELSE @]
    /\ UNCHANGED <<ws_state, b_i, b_disconnected, b_tried, received>>

\* The job service; the messages it schedules accumulate in `events`.
Next ==
    \/ UNCHANGED <<bus_vars, analyzer_vars, reader_vars>> /\ \E code \in Codes : create_job(code)
    \/ UNCHANGED <<bus_vars, analyzer_vars, reader_vars>> /\ \E job_id \in 1..MaxJobs : get_job(job_id)
    \/ UNCHANGED <<bus_vars, analyzer_vars, reader_vars>> /\ start_worker
    \/ UNCHANGED <<bus_vars, analyzer_vars, reader_vars>> /\ \E t \in Threads : W_Lock(t)
    \/ UNCHANGED <<bus_vars, analyzer_vars, reader_vars>> /\ \E t \in Threads : W_Dequeue(t)
    \/ UNCHANGED <<bus_vars, analyzer_vars, reader_vars>> /\ \E t \in Threads : W_Begin(t)
    \/ UNCHANGED <<bus_vars, analyzer_vars, reader_vars>> /\ \E t \in Threads : W_FindFunctions(t)
    \/ UNCHANGED <<bus_vars, analyzer_vars, reader_vars>> /\ \E t \in Threads : W_Generate(t)
    \/ UNCHANGED <<bus_vars, analyzer_vars, reader_vars>> /\ \E t \in Threads : W_FuncExcept(t)
    \/ UNCHANGED <<bus_vars, analyzer_vars, reader_vars>> /\ \E t \in Threads : W_Incr(t)
    \/ UNCHANGED <<bus_vars, analyzer_vars, reader_vars>> /\ \E t \in Threads : W_Success(t)
    \/ UNCHANGED <<bus_vars, analyzer_vars, reader_vars>> /\ \E t \in Threads : W_JobExcept(t)
    \/ UNCHANGED <<bus_vars, analyzer_vars, reader_vars>> /\ \E t \in Threads : W_SetError(t)
    \/ UNCHANGED <<bus_vars, analyzer_vars, reader_vars>> /\ \E t \in Threads : W_Return(t)
    \/ UNCHANGED <<bus_vars, analyzer_vars, reader_vars>> /\ \E t \in Threads : U_Store(t)
    \/ UNCHANGED <<bus_vars, analyzer_vars, reader_vars>> /\ \E t \in Threads : U_Unlock(t)
    \/ UNCHANGED <<bus_vars, analyzer_vars, reader_vars>> /\ \E t \in Threads : U_Notify(t)

Spec == Init /\ [][Next]_vars

\* The worker thread is a daemon thread that the interpreter keeps scheduling.
WorkerNext == UNCHANGED <<bus_vars, analyzer_vars, reader_vars>> /\ WorkerStep

\* The readers change nothing: a step of get_job is a stuttering step, which
\* [][...]_vars allows in any case, so the behaviours of Spec are those of
\* this next-state relation.
FairNext ==
    \/ UNCHANGED <<bus_vars, analyzer_vars, reader_vars>> /\ \E code \in Codes : create_job(code)
    \/ UNCHANGED <<bus_vars, analyzer_vars, reader_vars>> /\ start_worker
    \/ WorkerNext

\* The deployment in which update_job does hand its messages to the event
\* loop: the one in which a wait for their delivery could hold the worker up.
InitFair == Init /\ can_schedule

FairSpec == InitFair /\ [][FairNext]_vars /\ WF_vars(WorkerNext)

(***************************************************************************)
(* app/routes/jobs.py: the handlers that read the store.  They run on the  *)
(* event loop's thread while the worker thread runs.                       *)
(***************************************************************************)
\* get_all_jobs: list(self.jobs.values()) under the lock, a new list of the
\* same Job objects
get_all_jobs ==
    /\ lock = 0
    /\ UNCHANGED pipe_vars

\* The fields the handlers copy into their response models
JobDetailResponse(job) ==
    [id |-> job.id, code |-> job.code, status |-> job.status, updated_at |-> job.updated_at,
     total_functions |-> job.total_functions, processed_functions |-> job.processed_functions,
     functions |-> job.functions, error_message |-> job.error_message]

JobResponse(job) ==
    [id |-> job.id, status |-> job.status, total_functions |-> job.total_functions,
     processed_functions |-> job.processed_functions]

\* GET /jobs/{job_id}: job = job_service.get_job(job_id); without a job the
\* handler answers 404 at once.
jobs_get_job(job_id) ==
    /\ r_route = "none"
    /\ get_job(job_id)
    /\ IF job_id \in DOMAIN jobs
       THEN /\ r_route' = "get"
            /\ r_held' = {job_id}
            /\ r_seen' = NoResponse
       ELSE /\ r_seen' = [route |-> "get", body |-> <<>>]
            /\ UNCHANGED <<r_route, r_held>>
    /\ UNCHANGED h_stored

\* GET /jobs: jobs = job_service.get_all_jobs()
jobs_list_jobs ==
    /\ r_route = "none"
    /\ get_all_jobs
    /\ r_route' = "list"
    /\ r_held' = DOMAIN jobs
    /\ r_seen' = NoResponse
    /\ UNCHANGED h_stored

\* The handler builds its response from the objects it holds, with no lock.
jobs_respond ==
    /\ r_route # "none"
    /\ r_seen' = [route |-> r_route,
                  body |-> [id \in r_held |-> IF r_route = "get" THEN JobDetailResponse(jobs[id])
                                              ELSE JobResponse(jobs[id])]]
    /\ r_route' = "none"
    /\ r_held' = {}
    /\ UNCHANGED <<pipe_vars, h_stored>>

\* History: what create_job and update_job store
StoredByCreate == h_stored' = [h_stored EXCEPT ![Len(jobs')] = {jobs'[Len(jobs')]}]

StoredByUpdate(t) == h_stored' = [h_stored EXCEPT ![w_job[t]] = @ \cup {jobs'[w_job[t]]}]

\* The job service with the handlers that read it
NextReader ==
    \/ UNCHANGED <<bus_vars, analyzer_vars, r_route, r_held, r_seen>>
          /\ \E code \in Codes : create_job(code) /\ StoredByCreate
    \/ UNCHANGED <<bus_vars, analyzer_vars>> /\ \E job_id \in 1..MaxJobs : jobs_get_job(job_id)
    \/ UNCHANGED <<bus_vars, analyzer_vars>> /\ jobs_list_jobs
    \/ UNCHANGED <<bus_vars, analyzer_vars>> /\ jobs_respond
    \/ UNCHANGED <<bus_vars, analyzer_vars, reader_vars>> /\ \E t \in Threads : W_Lock(t)
    \/ UNCHANGED <<bus_vars, analyzer_vars, reader_vars>> /\ \E t \in Threads : W_Dequeue(t)
    \/ UNCHANGED <<bus_vars, analyzer_vars, reader_vars>> /\ \E t \in Threads : W_Begin(t)
    \/ UNCHANGED <<bus_vars, analyzer_vars, reader_vars>> /\ \E t \in Threads : W_FindFunctions(t)
    \/ UNCHANGED <<bus_vars, analyzer_vars, reader_vars>> /\ \E t \in Threads : W_Generate(t)
    \/ UNCHANGED <<bus_vars, analyzer_vars, reader_vars>> /\ \E t \in Threads : W_FuncExcept(t)
    \/ UNCHANGED <<bus_vars, analyzer_vars, reader_vars>> /\ \E t \in Threads : W_Incr(t)
    \/ UNCHANGED <<bus_vars, analyzer_vars, reader_vars>> /\ \E t \in Threads : W_Success(t)
    \/ UNCHANGED <<bus_vars, analyzer_vars, reader_vars>> /\ \E t \in Threads : W_JobExcept(t)
    \/ UNCHANGED <<bus_vars, analyzer_vars, reader_vars>> /\ \E t \in Threads : W_SetError(t)
    \/ UNCHANGED <<bus_vars, analyzer_vars, reader_vars>> /\ \E t \in Threads : W_Return(t)
    \/ UNCHANGED <<bus_vars, analyzer_vars, r_route, r_held, r_seen>>
          /\ \E t \in Threads : U_Store(t) /\ StoredByUpdate(t)
    \/ UNCHANGED <<bus_vars, analyzer_vars, reader_vars>> /\ \E t \in Threads : U_Unlock(t)
    \/ UNCHANGED <<bus_vars, analyzer_vars, reader_vars>> /\ \E t \in Threads : U_Notify(t)

SpecReader == Init /\ [][NextReader]_vars

\* The connection manager, running the broadcasts scheduled for it.
InitManager == Init /\ can_schedule /\ ast_grep

NextBus ==
    \/ UNCHANGED <<pipe_vars, analyzer_vars, reader_vars>> /\ \E websocket \in Sockets : connect(websocket)
    \/ UNCHANGED <<pipe_vars, analyzer_vars, reader_vars>> /\ \E websocket \in Sockets : ClientClose(websocket)
    \/ UNCHANGED <<pipe_vars, analyzer_vars, reader_vars>> /\ \E websocket \in Sockets : EndpointDisconnect(websocket)
    \/ UNCHANGED <<pipe_vars, analyzer_vars, reader_vars>> /\ \E m \in Broadcasts : ScheduleBroadcast(m)
    \/ UNCHANGED <<pipe_vars, analyzer_vars, reader_vars>> /\ \E m \in Broadcasts : B_Send(m)
    \/ UNCHANGED <<pipe_vars, analyzer_vars, reader_vars>> /\ \E m \in Broadcasts : B_Finish(m)

SpecBus == InitManager /\ [][NextBus]_vars

(***************************************************************************)
(* The analysis engine, one call at a time.  Each specification below      *)
(* draws the arguments of a call in its initial state and then runs the    *)
(* call; the job service and the connection manager stand still.           *)
(***************************************************************************)
InitStill == InitPipe /\ InitBus /\ InitReader /\ can_schedule /\ ast_grep

\* find_functions(code) under one behaviour of the tool
InitLocator ==
    /\ InitStill
    /\ l_code \in TextsUpTo(MaxHeaders)
    /\ l_tool \in ToolOutcomes
    /\ l_matches = ToolMatches(l_code)
    /\ l_result = NoCall
    /\ IdleSynth
    /\ IdleExtract
    /\ IdleValidate

L_FindFunctions ==
    /\ l_result = NoCall
    /\ l_result' \in find_functions(l_code, l_tool, l_matches)
    /\ UNCHANGED <<l_code, l_tool, l_matches>>

NextLocator ==
    \/ UNCHANGED <<pipe_vars, bus_vars, reader_vars, synth_vars, extract_vars, validate_vars>> /\ L_FindFunctions

SpecLocator == InitLocator /\ [][NextLocator]_vars

\* find_functions(code) when the tool prints matches: at most MaxMatches of
\* them, of every shape, capturing valid names, the same name again, a
\* keyword, a name with a leading underscore and the empty text.
MatchKinds ==
    {Match("dict", "foo"), Match("list", "bar"), Match("scalar", "foo"),
     Match("dict", ""), Match("emptylist", ""), Match("dict", "_init"),
     Match("list", "if"), Match("nokey", "bar"), Match("strlist", "bar")}

InitDiscovery ==
    /\ InitStill
    /\ l_code \in {<<Foo, Bar>>, <<Baz>>}
    /\ l_tool = "matches"
    /\ l_matches \in UNION {[1..k -> MatchKinds] : k \in 0..MaxMatches}
    /\ l_result = NoCall
    /\ IdleSynth
    /\ IdleExtract
    /\ IdleValidate

SpecDiscovery == InitDiscovery /\ [][NextLocator]_vars

\* generate_mermaid_diagram(code, function_name): the text defines one
\* function, whose body holds at most MaxStructures control structures.
Kinds == {"if", "for", "while", "return"}

Bodies == UNION {[1..k -> Kinds] : k \in 0..MaxStructures}

InitSynth ==
    /\ InitStill
    /\ IdleLocator
    /\ \E body \in Bodies : s_code = <<[rtype |-> "int", name |-> "foo", body |-> body]>>
    /\ s_name \in {"foo", "bar"}
    /\ s_tool \in BOOLEAN
    /\ s_pc = "call"
    /\ s_q = 0
    /\ s_structures = <<>>
    /\ s_i = 0
    /\ s_lines = <<>>
    /\ s_node = ""
    /\ s_counter = 0
    /\ s_diagram = ""
    /\ IdleExtract
    /\ IdleValidate

\* _generate_mermaid_from_ast up to its for loop, the tool answering every
\* query.  Without the executable it raises at once and
\* generate_mermaid_diagram returns the basic diagram.
S_Begin ==
    /\ s_pc = "call"
    /\ IF ~s_tool
       THEN /\ s_diagram' = _generate_basic_mermaid(s_name)
            /\ s_pc' = "done"
            /\ UNCHANGED <<s_q, s_structures, s_lines, s_node, s_counter>>
       ELSE LET diagram_lines == <<"flowchart TD", "    START([" \o s_name \o " starts])">>
                structures == _analyze_control_structures(
                                  _extract_function_code(s_code, s_name), AllMatch).structures
            IN /\ s_structures' = structures
               /\ s_q' = 4
               /\ IF structures # <<>>
                  THEN /\ s_lines' = diagram_lines
                       /\ s_node' = "START"
                       /\ s_counter' = 0
                       /\ s_pc' = "loop"
                       /\ UNCHANGED s_diagram
                  ELSE /\ s_lines' = diagram_lines \o <<"    START --> PROCESS[Process]",
                                                        "    PROCESS --> END([Function ends])">>
                       /\ s_diagram' = Join(s_lines')
                       /\ s_pc' = "done"
                       /\ UNCHANGED <<s_node, s_counter>>
    /\ UNCHANGED <<s_code, s_name, s_tool, s_i>>

\* One turn of `for struct_type, details in structures`
S_Add ==
    /\ s_pc = "loop"
    /\ s_i < Len(s_structures)
    /\ LET nxt == AddNode(s_structures[s_i + 1], <<s_lines, s_node, s_counter>>)
       IN /\ s_lines' = nxt[1]
          /\ s_node' = nxt[2]
          /\ s_counter' = nxt[3]
    /\ s_i' = s_i + 1
    /\ UNCHANGED <<s_code, s_name, s_tool, s_pc, s_q, s_structures, s_diagram>>

\* The loop is exhausted: "Connect to end", join, return.
S_End ==
    /\ s_pc = "loop"
    /\ s_i = Len(s_structures)
    /\ s_lines' = Append(s_lines, "    " \o s_node \o " --> END([" \o s_name \o " ends])")
    /\ s_diagram' = Join(s_lines')
    /\ s_pc' = "done"
    /\ UNCHANGED <<s_code, s_name, s_tool, s_q, s_structures, s_i, s_node, s_counter>>

NextSynth ==
    \/ UNCHANGED <<pipe_vars, bus_vars, reader_vars, locator_vars, extract_vars, validate_vars>> /\ S_Begin
    \/ UNCHANGED <<pipe_vars, bus_vars, reader_vars, locator_vars, extract_vars, validate_vars>> /\ S_Add
    \/ UNCHANGED <<pipe_vars, bus_vars, reader_vars, locator_vars, extract_vars, validate_vars>> /\ S_End

SpecSynth == InitSynth /\ [][NextSynth]_vars

\* generate_mermaid_diagram(code, function_name) once more, now run by run:
\* each of the four runs of the tool ends in one of QueryOutcomes.
\* _generate_mermaid_from_ast up to the call of _analyze_control_structures.
R_Begin ==
    /\ s_pc = "call"
    /\ IF ~s_tool
       THEN /\ s_diagram' = _generate_basic_mermaid(s_name)
            /\ s_pc' = "done"
            /\ UNCHANGED s_lines
       ELSE /\ s_lines' = <<"flowchart TD", "    START([" \o s_name \o " starts])">>
            /\ s_pc' = "query"
            /\ UNCHANGED s_diagram
    /\ UNCHANGED <<s_code, s_name, s_tool, s_q, s_structures, s_i, s_node, s_counter>>

R_Query_unguarded ==
    /\ s_pc = "query"
    /\ s_q < 4
    /\ \E outcome \in QueryOutcomes :
          LET r == Query(_extract_function_code(s_code, s_name), s_q + 1, outcome, s_structures)
          IN IF r.kind = "raise"
             THEN /\ s_pc' = "raised"
                  /\ UNCHANGED <<s_q, s_structures, s_diagram>>
             ELSE /\ s_structures' = r.structures
                  /\ s_q' = s_q + 1
                  /\ UNCHANGED <<s_pc, s_diagram>>
    /\ UNCHANGED <<s_code, s_name, s_tool, s_i, s_lines, s_node, s_counter>>

\* The next run of the tool in _analyze_control_structures.  A timeout
\* leaves _analyze_control_structures and _generate_mermaid_from_ast through
\* their finally blocks, and the handler of generate_mermaid_diagram
\* returns the basic diagram.
R_Query ==
    /\ s_pc = "query"
    /\ s_q < 4
    /\ \E outcome \in QueryOutcomes :
          LET r == Query(_extract_function_code(s_code, s_name), s_q + 1, outcome, s_structures)
          IN IF r.kind = "raise"
             THEN /\ s_diagram' = _generate_basic_mermaid(s_name)
                  /\ s_pc' = "done"
                  /\ UNCHANGED <<s_q, s_structures>>
             ELSE /\ s_structures' = r.structures
                  /\ s_q' = s_q + 1
                  /\ UNCHANGED <<s_pc, s_diagram>>
    /\ UNCHANGED <<s_code, s_name, s_tool, s_i, s_lines, s_node, s_counter>>

\* _analyze_control_structures returns: `if structures:` and its else branch
R_Build ==
    /\ s_pc = "query"
    /\ s_q = 4
    /\ IF s_structures # <<>>
       THEN /\ s_node' = "START"
            /\ s_counter' = 0
            /\ s_pc' = "loop"
            /\ UNCHANGED <<s_lines, s_diagram>>
       ELSE /\ s_lines' = s_lines \o <<"    START --> PROCESS[Process]",
                                        "    PROCESS --> END([Function ends])">>
            /\ s_diagram' = Join(s_lines')
            /\ s_pc' = "done"
            /\ UNCHANGED <<s_node, s_counter>>
    /\ UNCHANGED <<s_code, s_name, s_tool, s_q, s_structures, s_i>>

NextRuns ==
    \/ UNCHANGED <<pipe_vars, bus_vars, reader_vars, locator_vars, extract_vars, validate_vars>> /\ R_Begin
    \/ UNCHANGED <<pipe_vars, bus_vars, reader_vars, locator_vars, extract_vars, validate_vars>> /\ R_Query
    \/ UNCHANGED <<pipe_vars, bus_vars, reader_vars, locator_vars, extract_vars, validate_vars>> /\ R_Build
    \/ UNCHANGED <<pipe_vars, bus_vars, reader_vars, locator_vars, extract_vars, validate_vars>> /\ S_Add
    \/ UNCHANGED <<pipe_vars, bus_vars, reader_vars, locator_vars, extract_vars, validate_vars>> /\ S_End

\* The thread that made the call keeps running, and every run of the tool
\* is made with a timeout.
SpecRuns == InitSynth /\ [][NextRuns]_vars /\ WF_vars(NextRuns)

\* _extract_function_code(code, "f") on texts "int f() { <items> } int g() { }"
\* whose items are statements, nested blocks and string literals.
Items == {"stmt", "open", "close", "s_plain", "s_open", "s_close", "s_quote", "s_slash"}

ItemText(item) ==
    CASE item = "stmt" -> " x;"
      [] item = "open" -> " {"
      [] item = "close" -> " }"
      [] item = "s_plain" -> " \"x\""
      [] item = "s_open" -> " \"{\""
      [] item = "s_close" -> " \"}\""
      [] item = "s_quote" -> " \"a\\\"{b}\""
      [] item = "s_slash" -> " \"\\\\\""

RECURSIVE Render(_)
Render(items) ==
    IF items = <<>> THEN "" ELSE ItemText(Head(items)) \o Render(Tail(items))

\* The nesting depth after the items; -1 once a block is closed that was not opened
RECURSIVE Depth(_, _)
Depth(items, d) ==
    IF d < 0 \/ items = <<>> THEN d
    ELSE Depth(Tail(items), CASE Head(items) = "open" -> d + 1
                              [] Head(items) = "close" -> d - 1
                              [] OTHER -> d)

BodiesOfItems == {items \in UNION {[1..k -> Items] : k \in 0..MaxItems} : Depth(items, 0) = 0}

TextOf(items) == Header("f") \o Render(items) \o " }" \o " int g() { }"

InitExtract ==
    /\ InitStill
    /\ IdleLocator
    /\ IdleSynth
    /\ IdleValidate
    /\ x_items \in BodiesOfItems
    /\ x_code = TextOf(x_items)
    /\ x_name \in {"f", "g", "h"}
    /\ x_result = ""

X_Extract ==
    /\ x_result = ""
    /\ x_result' = _extract_function_code_text(x_code, x_name)
    /\ UNCHANGED <<x_items, x_code, x_name>>

NextExtract ==
    \/ UNCHANGED <<pipe_vars, bus_vars, reader_vars, locator_vars, synth_vars, validate_vars>> /\ X_Extract

SpecExtract == InitExtract /\ [][NextExtract]_vars

\* validate_mermaid_syntax(mermaid_code) on texts of at most MaxLines lines
LineTexts == {"flowchart TD", "graph TD", "    A --> B", "    A --- B", "    A[x]", ""}

TextOfLines(lines) == IF lines = <<>> THEN "" ELSE Join(lines)

DiagramTexts == {TextOfLines(lines) : lines \in UNION {[1..k -> LineTexts] : k \in 0..MaxLines}}

InitValidate ==
    /\ InitStill
    /\ IdleLocator
    /\ IdleSynth
    /\ IdleExtract
    /\ v_code \in DiagramTexts
    /\ v_cli \in CliOutcomes
    /\ v_called = FALSE
    /\ v_result = FALSE

V_Validate ==
    /\ ~v_called
    /\ v_called' = TRUE
    /\ v_result' = validate_mermaid_syntax(v_code, v_cli)
    /\ UNCHANGED <<v_code, v_cli>>

NextValidate ==
    \/ UNCHANGED <<pipe_vars, bus_vars, reader_vars, locator_vars, synth_vars, extract_vars>> /\ V_Validate

SpecValidate == InitValidate /\ [][NextValidate]_vars
(***************************************************************************)
(* Properties                                                              *)
(***************************************************************************)
Terminal == {SUCCESS, FAILED}

JobIds == DOMAIN jobs

\* The events emitted for one job, in order
EventsOf(evs, id) == SelectSeq(evs, LAMBDA e : e.job_id = id)

\* The worker is done with the job: the update_job call that stored its
\* terminal status has returned.
Settled(id) ==
    /\ jobs[id].status \in Terminal
    /\ \A t \in alive : w_job[t] = id => pc[t] = "done"

Rank(status) ==
    CASE status = QUEUED -> 0
      [] status = IN_PROGRESS -> 1
      [] status \in Terminal -> 2

HasEdgeToken(diagram) == Contains(diagram, "-->") \/ Contains(diagram, "---")

Names(results) == [k \in 1..Len(results) |-> results[k].name]

\* C1: in every reachable state every job of the store has
\* 0 <= processed_functions <= total_functions.
C1_ProcessedWithinTotal ==
    \A id \in JobIds :
        /\ 0 <= jobs[id].processed_functions
        /\ jobs[id].processed_functions <= jobs[id].total_functions

\* A job ended in Success with two functions counted, one of which failed to
\* render, next to a job that ended in Failed.
C1_Witness ==
    \E a, b \in JobIds :
        /\ jobs[a].status = SUCCESS
        /\ jobs[a].processed_functions = 2
        /\ \E k \in 1..Len(jobs[a].functions) :
              Contains(jobs[a].functions[k].mermaid_diagram, "Error")
        /\ jobs[b].status = FAILED

\* C2: a job's status only ever steps Queued -> InProgress -> Success or
\* Failed, in the store and in the events emitted for it: a job enters the
\* store Queued, a terminal status is entered from InProgress only and never
\* left, and the events of a job carry statuses in that same forward order.
C2_StoreStep ==
    /\ \A id \in JobIds :
          \/ jobs'[id].status = jobs[id].status
          \/ <<jobs[id].status, jobs'[id].status>> \in
                {<<QUEUED, IN_PROGRESS>>, <<IN_PROGRESS, SUCCESS>>, <<IN_PROGRESS, FAILED>>}
    /\ \A id \in (DOMAIN jobs') \ JobIds : jobs'[id].status = QUEUED

C2_EventsForward(evs) ==
    \A a, b \in 1..Len(evs) :
        (a < b /\ evs[a].job_id = evs[b].job_id) =>
            /\ Rank(evs[a].status) <= Rank(evs[b].status)
            /\ evs[a].status \in Terminal => evs[b].status = evs[a].status

C2_EventsStart(evs) ==
    \A b \in 1..Len(evs) :
        evs[b].status \in Terminal =>
            \E a \in 1..(b - 1) : evs[a].job_id = evs[b].job_id /\ evs[a].status = IN_PROGRESS

C2_StatusForward ==
    [][C2_StoreStep /\ C2_EventsForward(events') /\ C2_EventsStart(events')]_vars

\* One job went Queued, InProgress, Failed and another Queued, InProgress,
\* Success, each with its events.
C2_Witness ==
    \E a, b \in JobIds :
        /\ jobs[a].status = FAILED
        /\ jobs[b].status = SUCCESS
        /\ \E k \in 1..Len(events) : events[k].job_id = a /\ events[k].status = FAILED
        /\ \E k \in 1..Len(events) : events[k].job_id = b /\ events[k].status = SUCCESS

\* C3 as stated: once a job's status is Success or Failed, no step changes
\* any of its fields and no further event is emitted for it.
C3_TerminalImmutable ==
    [][\A id \in JobIds :
          jobs[id].status \in Terminal =>
              /\ jobs'[id] = jobs[id]
              /\ EventsOf(events', id) = EventsOf(events, id)]_vars

\* C3 as amended: once the update_job call that stores a job's Success or
\* Failed status has returned, no step changes any of its fields and no
\* further event is emitted for it (nor does a worker take it up again).
C3_SettledImmutable ==
    [][\A id \in JobIds :
          Settled(id) =>
              /\ Settled(id)'
              /\ jobs'[id] = jobs[id]
              /\ EventsOf(events', id) = EventsOf(events, id)]_vars

\* A settled job, with its terminal event emitted, while the worker is busy
\* with the next job.
C3_Witness ==
    \E a, b \in JobIds :
        /\ Settled(a)
        /\ \E k \in 1..Len(events) : events[k].job_id = a /\ events[k].status \in Terminal
        /\ jobs[b].status = IN_PROGRESS
        /\ jobs[b].processed_functions = 1

\* C4: jobs are processed one at a time in submission order: a job leaves
\* Queued only after every job created before it is settled in a terminal
\* status, and at most one job is InProgress.
C4_Sequential ==
    /\ \A a, b \in JobIds :
          (a < b /\ jobs[b].status # QUEUED) => Settled(a) /\ (\A t \in alive : w_job[t] # a)
    /\ Cardinality({id \in JobIds : jobs[id].status = IN_PROGRESS}) <= 1

\* The first job is terminal and the second is in progress with one of its
\* functions processed.
C4_Witness ==
    /\ Len(jobs) = 2
    /\ jobs[1].status \in Terminal
    /\ jobs[2].status = IN_PROGRESS
    /\ jobs[2].processed_functions = 1
    /\ jobs[1].updated_at < jobs[2].updated_at

C6_ErrorIffFailed ==
    \A id \in JobIds : (jobs[id].error_message # None) <=> (jobs[id].status = FAILED)

\* The worker stands between the handler's two assignments
\* (job.status = FAILED done, job.error_message = str(e) not yet).
InFailHandler(id) == \E t \in alive : w_job[t] = id /\ pc[t] = "set_error"

\* C6 as amended: a failure that escapes the per-job pipeline moves the job
\* to Failed; error_message is never set on a job that is not Failed, and a
\* Failed job has error_message set from the handler's second assignment on,
\* so in every state that update_job stores or announces.
C6_ErrorOnlyOnFailed ==
    /\ \A id \in JobIds :
          /\ jobs[id].error_message # None => jobs[id].status = FAILED
          /\ (jobs[id].status = FAILED /\ ~InFailHandler(id)) => jobs[id].error_message # None
    /\ \A t \in alive :
          pc[t] = "set_error" => jobs[w_job[t]].status = FAILED /\ w_exc[t] # None
    /\ \A k \in 1..Len(events) :
          events[k].status = FAILED => jobs[events[k].job_id].error_message # None

\* A Failed job, settled, with its error message and its Failed event.
C6_Witness ==
    \E id \in JobIds :
        /\ Settled(id)
        /\ jobs[id].status = FAILED
        /\ jobs[id].error_message \in Exceptions
        /\ \E k \in 1..Len(events) : events[k].job_id = id /\ events[k].status = FAILED

\* C7: a job with status Success has processed_functions = total_functions
\* = len(functions) = the number of names find_functions returned; its
\* results carry those names in discovery order; each diagram is non-empty
\* text with an edge token.  (A job without functions succeeds with 0 and
\* an empty list: the witness.)
C7_SuccessComplete ==
    /\ \A id \in JobIds :
          jobs[id].status = SUCCESS =>
              /\ jobs[id].processed_functions = jobs[id].total_functions
              /\ jobs[id].total_functions = Len(jobs[id].functions)
              /\ \E outcome \in ToolRuns(ast_grep) :
                    Returned(Names(jobs[id].functions)) \in
                        find_functions(jobs[id].code, outcome, ToolMatches(jobs[id].code))
              /\ \A k \in 1..Len(jobs[id].functions) :
                    /\ jobs[id].functions[k].mermaid_diagram # ""
                    /\ HasEdgeToken(jobs[id].functions[k].mermaid_diagram)
    /\ \A t \in alive :
          (w_job[t] # 0 /\ pc[t] # "get" /\ jobs[w_job[t]].status = SUCCESS) =>
              Names(jobs[w_job[t]].functions) = w_functions[t]

\* One job succeeded with no function at all, another with two functions
\* that the fallback returned against source order and of which one failed
\* to render.
C7_Witness ==
    \E a, b \in JobIds :
        /\ jobs[a].status = SUCCESS
        /\ jobs[a].code = <<>>
        /\ jobs[a].total_functions = 0
        /\ jobs[a].functions = <<>>
        /\ jobs[b].status = SUCCESS
        /\ Names(jobs[b].functions) = <<"bar", "foo">>
        /\ Contains(jobs[b].functions[1].mermaid_diagram, "Error")

\* What the events of a job with n functions that succeeded should be:
\* <<status, total_functions, processed_functions>> of each, in order.
ExpectedSteps(n) ==
    <<<<IN_PROGRESS, 0, 0>>>> \o [k \in 1..(n + 1) |-> <<IN_PROGRESS, n, k - 1>>]
        \o <<<<SUCCESS, n, n>>>>

Steps(evs) == [k \in 1..Len(evs) |-> <<evs[k].status, evs[k].total_functions,
                                         evs[k].processed_functions>>]

\* C8: for a job with N functions that succeeded the worker has made exactly
\* N+3 persist+notify steps: (InProgress,0,0), (InProgress,N,0), one per
\* function with processed = 1..N, then (Success,N,N).
C8_NotifyEveryStep ==
    \A id \in JobIds :
        (Settled(id) /\ jobs[id].status = SUCCESS) =>
            Steps(EventsOf(events, id)) = ExpectedSteps(jobs[id].total_functions)

\* C9: update_job stores the job, with updated_at refreshed, while it holds
\* the lock; it builds and schedules the event only after the lock is
\* released and the store holds the new state; and the event carries the
\* status, total_functions and processed_functions (and updated_at) just
\* stored.
C9_StoreThenNotify ==
    \A t \in alive :
        /\ pc[t] = "u_unlock" => lock = t /\ jobs[w_job[t]].updated_at = clock
        /\ pc[t] = "u_notify" => lock # t /\ jobs[w_job[t]].updated_at = clock
        /\ (pc[t] \in {"find", "loop", "done"} /\ can_schedule) =>
              /\ events # <<>>
              /\ events[Len(events)] = update_message(jobs[w_job[t]])
              /\ events[Len(events)].updated_at = ToString(clock)

\* update_job has just returned from emitting the event of a per-function
\* update, the lock being free.
C9_Witness ==
    \E t \in alive :
        /\ pc[t] = "loop"
        /\ lock = 0
        /\ events # <<>>
        /\ events[Len(events)].processed_functions = 2
        /\ events[Len(events)].status = IN_PROGRESS

\* C10: when a broadcast ends, send_json was called for every websocket that
\* was in the active set from its beginning to its end; the websockets
\* whose send failed are out of the active set; those whose send succeeded
\* are still in it if they were before the clean-up.
C10_Ends(m) == b_pc[m] = "running" /\ b_pc'[m] = "done"

C10_BroadcastReachesAll ==
    [][\A m \in Broadcasts :
          C10_Ends(m) =>
              /\ \A ws \in b_start'[m] \cap Range(active_connections) : ws \in b_tried[m]
              /\ \A ws \in Range(b_disconnected[m]) : ws \notin Range(active_connections')
              /\ \A ws \in (b_tried[m] \ Range(b_disconnected[m])) \cap Range(active_connections) :
                    ws \in Range(active_connections')]_vars

\* C11: while the job queue is empty a worker that is between jobs takes no
\* step: it neither takes the lock nor looks at the queue again until
\* create_job has enqueued an id.
C11_IdleWhenEmpty ==
    [][\A t \in alive :
          (pc[t] = "dequeue" /\ job_queue = <<>>) => (pc'[t] = pc[t] /\ lock' # t)]_vars

\* The names the fallback's pattern matches in `code`
FallbackNames(code) ==
    {code[k].name : k \in {n \in 1..Len(code) : code[n].rtype \in FallbackTypes}}

Distinct(list) == \A a, b \in 1..Len(list) : list[a] = list[b] => a = b

\* The call went to the regex fallback: every outcome of the tool but a
\* match list with a valid name in it.
FellThrough(code, outcome) ==
    \/ outcome # "matches"
    \/ FilterNames([k \in 1..Len(code) |-> code[k].name], <<>>) = <<>>

\* C12: whatever the tool does (absent, timeout, non-zero exit, empty,
\* malformed or misshapen output, no valid match), find_functions returns
\* to its caller, and what it returns is a list of pairwise distinct names;
\* in each of those cases the list is the fallback's: every name of a
\* header with a supported return type, once each, so N distinct such names
\* in the source give N names.
C12_AlwaysDistinctList ==
    l_result # NoCall =>
        /\ l_result.kind = "return"
        /\ Distinct(l_result.names)
        /\ FellThrough(l_code, l_tool) =>
              /\ Range(l_result.names) = FallbackNames(l_code)
              /\ Len(l_result.names) = Cardinality(FallbackNames(l_code))

\* The tool timed out on a text in which foo is defined twice and bar once:
\* the fallback answered with two names.
C12_Witness ==
    /\ l_tool = "timeout"
    /\ l_code = <<Foo, Bar, Foo>>
    /\ l_result # NoCall
    /\ l_result.kind = "return"
    /\ Len(l_result.names) = 2

(***************************************************************************)
(* Reading a diagram: its nodes and its edges                              *)
(***************************************************************************)
IdChars == {"A", "B", "C", "D", "E", "F", "G", "H", "I", "J", "K", "L", "M", "N", "O",
            "P", "Q", "R", "S", "T", "U", "V", "W", "X", "Y", "Z",
            "0", "1", "2", "3", "4", "5", "6", "7", "8", "9"}

\* The first position at or after k that does not continue an identifier
RECURSIVE IdEnd(_, _)
IdEnd(l, k) ==
    IF k <= Len(l) /\ SubSeq(l, k, k) \in IdChars THEN IdEnd(l, k + 1) ELSE k

\* A line of the diagram's body: "    X<shape>", "    X<shape> --> Y<shape>"
\* or "    X<shape> -->|branch| Y<shape>".  A shape ("[...]", "{...}",
\* "([...])") introduces the node; a bare identifier refers to it.
ParseLine(line) ==
    LET l == SubSeq(line, 5, Len(line))
        a == Find(l, "-->", 1)
        from_end == IdEnd(l, 1)
        after == a + 3
        has_branch == a # 0 /\ SubSeq(l, after, after) = "|"
        bar == IF has_branch THEN Find(l, "|", after + 1) ELSE 0
        to_start == (IF has_branch THEN bar + 1 ELSE after) + 1
        to_end == IdEnd(l, to_start)
    IN [from |-> SubSeq(l, 1, from_end - 1),
        from_shape |-> IF a = 0 THEN SubSeq(l, from_end, Len(l)) ELSE SubSeq(l, from_end, a - 2),
        edge |-> a # 0,
        branch |-> IF has_branch THEN SubSeq(l, after + 1, bar - 1) ELSE "",
        to |-> IF a = 0 THEN "" ELSE SubSeq(l, to_start, to_end - 1),
        to_shape |-> IF a = 0 THEN "" ELSE SubSeq(l, to_end, Len(l))]

\* The body lines of a diagram text, read
Parsed(text) ==
    LET lines == SplitLines(text)
    IN [k \in 1..(Len(lines) - 1) |-> ParseLine(lines[k + 1])]

NodesOf(text) ==
    LET ps == Parsed(text)
    IN ({ps[k].from : k \in DOMAIN ps} \cup {ps[k].to : k \in DOMAIN ps}) \ {""}

\* The edges, as <<from, branch, to>>
EdgesOf(text) ==
    LET ps == Parsed(text)
    IN {<<ps[k].from, ps[k].branch, ps[k].to>> : k \in {n \in DOMAIN ps : ps[n].edge}}

EdgeCount(text) ==
    LET ps == Parsed(text)
    IN Cardinality({n \in DOMAIN ps : ps[n].edge})

\* The body of the function generate_mermaid_diagram was asked about
SynthBody == _extract_function_code(s_code, s_name)

\* C13: a function with an empty structure sequence gets a diagram of
\* exactly two nodes (start, end) joined by one edge when its source has no
\* return token, and of exactly three nodes (start, return, end) when it
\* has one; without the structural tool the diagram is that minimal one too.
C13_MinimalDiagram ==
    (s_pc = "done" /\ (s_structures = <<>> \/ ~s_tool)) =>
        IF "return" \in Range(SynthBody)
        THEN Cardinality(NodesOf(s_diagram)) = 3 /\ EdgeCount(s_diagram) = 2
        ELSE Cardinality(NodesOf(s_diagram)) = 2 /\ EdgeCount(s_diagram) = 1

\* A string literal without a brace in the place of each string literal
Debrace(items) ==
    [k \in DOMAIN items |-> IF items[k] \in {"stmt", "open", "close"} THEN items[k] ELSE "s_plain"]

\* The text of f: from its header to the brace that closes its body
TextOfF(items) == Header("f") \o Render(items) \o " }"

\* C14: the extraction of f returns the text from f's header to the brace
\* that closes f's body, whatever braces, escaped quotes or escaped
\* backslashes the string literals of the body hold; the same text with
\* brace-free string literals in their place is cut at the same brace.
C14_BalancedAcrossStrings ==
    (x_result # "" /\ x_name = "f") =>
        /\ x_result = TextOfF(x_items)
        /\ _extract_function_code_text(TextOf(Debrace(x_items)), "f") = TextOfF(Debrace(x_items))

\* The body holds a nested block with the literal "a\"{b}" in it and a
\* literal "}" after it, and f was cut out whole.
C14_Witness ==
    /\ x_items = <<"open", "s_quote", "close">>
    /\ x_name = "f"
    /\ x_result = "int f() { { \"a\\\"{b}\" } }"

HasEdge(line) == Contains(line, "-->") \/ Contains(line, "---")

\* The first line of the text opens with the declaration and a later line
\* holds an edge token.
DeclaredFirst(text) == startswith(SplitLines(text)[1], "flowchart")

EdgeAfterFirst(text) ==
    \E k \in 2..Len(SplitLines(text)) : HasEdge(SplitLines(text)[k])

\* C15 as stated: without the external linter validate(text) is true
\* exactly when the first line of the text opens with the declaration and
\* some later line contains an edge token; and the fallback validator
\* rejects every text that does not begin with the declaration line,
\* whatever the linter's configuration.
C15_FirstLineDeclares ==
    /\ (v_called /\ v_cli = "absent") =>
          (v_result <=> (DeclaredFirst(v_code) /\ EdgeAfterFirst(v_code)))
    /\ ~DeclaredFirst(v_code) => ~_basic_mermaid_validation(v_code)

Blank(line) == \A k \in 1..Len(line) : SubSeq(line, k, k) \in Whitespace

\* The number of the first line that is not blank; 0 if every line is blank
FirstInk(lines) ==
    IF \A k \in 1..Len(lines) : Blank(lines[k]) THEN 0
    ELSE CHOOSE k \in 1..Len(lines) :
            ~Blank(lines[k]) /\ \A j \in 1..(k - 1) : Blank(lines[j])

RECURSIVE Unindent(_)
Unindent(line) ==
    IF line # "" /\ SubSeq(line, 1, 1) \in Whitespace
    THEN Unindent(SubSeq(line, 2, Len(line))) ELSE line

\* Blank lines and indentation aside, the text opens with the declaration
DeclaredFirstInk(text) ==
    LET lines == SplitLines(text)
    IN FirstInk(lines) # 0 /\ startswith(Unindent(lines[FirstInk(lines)]), "flowchart")

EdgeAfterFirstInk(text) ==
    LET lines == SplitLines(text)
    IN \E k \in (FirstInk(lines) + 1)..Len(lines) : HasEdge(lines[k])

\* C15 as amended: without the external linter validate(text) is true
\* exactly when the first line of the text that is not blank opens, after
\* its indentation, with the declaration and some later line contains an
\* edge token; and the fallback validator rejects every text whose first
\* non-blank line does not open with the declaration, whatever the
\* linter's configuration (with the linter present validate returns the
\* linter's verdict).
C15_FirstInkDeclares ==
    /\ (v_called /\ v_cli = "absent") =>
          (v_result <=> (DeclaredFirstInk(v_code) /\ EdgeAfterFirstInk(v_code)))
    /\ ~DeclaredFirstInk(v_code) => ~_basic_mermaid_validation(v_code)
    /\ (v_called /\ v_cli # "absent") => (v_result <=> v_cli = "accepts")

\* Without the linter a text was accepted whose first line is blank, whose
\* second line is the declaration and whose third holds the token ---.
C15_Witness ==
    /\ v_called
    /\ v_cli = "absent"
    /\ v_code = "\nflowchart TD\n    A --- B"
    /\ v_result

\* C16: the structures the four queries found are merged into one list
\* sorted by source offset: the sequence handed to the synthesizer is the
\* left-to-right source order of the function's structures, whatever their
\* kinds.
C16_SourceOrder ==
    (s_tool /\ s_pc \in {"loop", "done"}) => s_structures = SynthBody

\* The nodes a diagram introduces, each with the shape it is given:
\* <<identifier, shape>>
ShapesOf(text) ==
    LET ps == Parsed(text)
    IN {<<ps[k].from, ps[k].from_shape>> : k \in {n \in DOMAIN ps : ps[n].from_shape # ""}}
         \cup {<<ps[k].to, ps[k].to_shape>> : k \in {n \in DOMAIN ps : ps[n].to_shape # ""}}

EndNodes(text) == {p[1] : p \in {q \in ShapesOf(text) : Contains(q[2], "ends")}}

ReturnNodes(text) == {p[1] : p \in {q \in ShapesOf(text) : q[2] = "[Return]"}}

\* The place of the first Return in the sequence; 0 if it has none
FirstReturn(structures) ==
    IF "return" \notin Range(structures) THEN 0
    ELSE CHOOSE k \in 1..Len(structures) :
            structures[k] = "return" /\ \A j \in 1..(k - 1) : structures[j] # "return"

\* C17: the first Return of the sequence gets one return node and one end
\* node wired from it, and ends the synthesis: nothing after it is
\* rendered and no end node or edge is added; only a sequence without
\* Return has its last predecessor wired to the end node.  So a diagram has
\* exactly one end node, at most one return node, and no edge leaves an end
\* node.
C17_ReturnEndsDiagram ==
    (s_pc = "done" /\ s_tool /\ s_structures # <<>>) =>
        /\ Cardinality(EndNodes(s_diagram)) = 1
        /\ Cardinality(ReturnNodes(s_diagram)) <= 1
        /\ \A e \in EdgesOf(s_diagram) : e[1] \notin EndNodes(s_diagram)
        /\ FirstReturn(s_structures) # 0 => s_i = FirstReturn(s_structures)

NodesShaped(text, shape) == {p[1] : p \in {q \in ShapesOf(text) : q[2] = shape}}

\* C18: each If gets a decision node wired from the predecessor and a
\* then-branch node (and an else-branch node when the if has an else that
\* is not an else-if); every branch node has an edge into the one merge
\* node, to which the cursor advances.
C18_IfBranchesMerge ==
    (s_pc = "done" /\ s_tool) =>
        \A d \in NodesShaped(s_diagram, "{If condition}") :
            /\ \E e \in EdgesOf(s_diagram) : e[3] = d
            /\ \E t \in NodesShaped(s_diagram, "[Then branch]") :
               \E m \in NodesShaped(s_diagram, "[Continue]") :
                  /\ <<d, "Yes", t>> \in EdgesOf(s_diagram)
                  /\ <<t, "", m>> \in EdgesOf(s_diagram)
                  /\ \E e \in EdgesOf(s_diagram) : e[1] = m

\* Lines of a diagram's body, read
ReadLines(lines) == [k \in 1..Len(lines) |-> ParseLine(lines[k])]

IdsIn(ps) == ({ps[k].from : k \in DOMAIN ps} \cup {ps[k].to : k \in DOMAIN ps}) \ {""}

EdgesIn(ps) == {<<ps[k].from, ps[k].branch, ps[k].to>> : k \in {n \in DOMAIN ps : ps[n].edge}}

ShapesIn(ps) ==
    {<<ps[k].from, ps[k].from_shape>> : k \in {n \in DOMAIN ps : ps[n].from_shape # ""}}
      \cup {<<ps[k].to, ps[k].to_shape>> : k \in {n \in DOMAIN ps : ps[n].to_shape # ""}}

\* The lines the step appends, and those there were before (the first one,
\* the declaration, aside)
Appended == ReadLines(SubSeq(s_lines', Len(s_lines) + 1, Len(s_lines')))
Before == ReadLines(Tail(s_lines))

\* The step renders a For or a While
C19_LoopStep ==
    /\ s_pc = "loop"
    /\ s_i' = s_i + 1
    /\ s_structures[s_i'] \in {"for", "while"}

\* C19: for each For or While the synthesizer emits a decision node wired
\* from the current predecessor, a body node reached from the decision node
\* on the loop branch, a back-edge from the body node to the decision node
\* and an exit node reached from the decision node on the exit branch;
\* these are three new nodes and four edges, nothing else; and the exit
\* node is the predecessor of what comes next.
C19_LoopShape ==
    [][C19_LoopStep =>
          LET is_for == s_structures[s_i'] = "for"
          IN \A new \in {Appended} :
             \E d, b, e \in IdsIn(new) \ IdsIn(Before) :
                /\ d # b /\ b # e /\ d # e
                /\ IdsIn(new) = {s_node, d, b, e}
                /\ Len(s_lines') = Len(s_lines) + 4
                /\ EdgesIn(new) =
                      {<<s_node, "", d>>,
                       <<d, IF is_for THEN "Continue" ELSE "True", b>>,
                       <<b, "", d>>,
                       <<d, IF is_for THEN "Exit" ELSE "False", e>>}
                /\ ShapesIn(new) =
                      {<<d, IF is_for THEN "{For loop}" ELSE "{While condition}">>,
                       <<b, "[Loop body]">>, <<e, "[Continue]">>}
                /\ s_node' = e]_vars

\* A for followed by a while: the while's decision node N3 hangs on the
\* for's exit node N2, and both back-edges are there.
C19_Witness ==
    /\ s_pc = "done"
    /\ s_structures = <<"for", "while">>
    /\ {<<"N1", "", "N0">>, <<"N2", "", "N3">>, <<"N4", "", "N3">>, <<"N5", "", "END">>}
          \subseteq EdgesOf(s_diagram)

\* The nodes a sequence of lines introduces, in the order it does:
\* a line's source before its target
RECURSIVE IntroducedBy(_, _)
IntroducedBy(ps, n) ==
    IF n = 0 THEN <<>>
    ELSE IntroducedBy(ps, n - 1)
           \o (IF ps[n].from_shape # "" THEN <<ps[n].from>> ELSE <<>>)
           \o (IF ps[n].to_shape # "" THEN <<ps[n].to>> ELSE <<>>)

Introduced(ps) == IntroducedBy(ps, Len(ps))

\* C20, the counter: a step of the loop that creates n nodes raises the
\* node counter by n, one for each, and names them after the values it
\* passes through, in order.
C20_CounterStep ==
    (s_pc = "loop" /\ s_i' = s_i + 1) =>
        /\ s_counter' > s_counter
        /\ \A new \in {Appended} :
              Introduced(new) = [k \in 1..(s_counter' - s_counter) |-> N(s_counter + k - 1)]

\* C20, the diagram: every node is introduced exactly once, and every
\* edge starts at a node that an earlier line introduced.
C20_WellFormed(text) ==
    \A ps \in {Parsed(text)} :
        /\ \A nodes \in {Introduced(ps)} :
              Distinct(nodes) /\ Range(nodes) = IdsIn(ps)
        /\ \A k \in DOMAIN ps :
              ps[k].edge => ps[k].from \in Range(IntroducedBy(ps, k - 1))

\* C20, the function: the text depends on the function name and the
\* structure sequence only, and a second run gives the same text.
C20_SameText ==
    /\ s_diagram = generate_mermaid_diagram(s_code, s_name, s_tool, AllMatch)
    /\ s_diagram = generate_mermaid_diagram(
                       <<[rtype |-> "void", name |-> s_name, body |-> s_structures]>>,
                       s_name, s_tool, AllMatch)

\* C20: diagram synthesis is a deterministic function of the function name
\* and the structure sequence; the node counter goes up by one with each
\* node created; no two nodes of a diagram share an identifier; every edge
\* starts at a node introduced earlier.
C20_Deterministic ==
    [][/\ C20_CounterStep
       /\ (s_tool /\ s_pc' = "done") => (C20_WellFormed(s_diagram') /\ C20_SameText')]_vars

\* The diagram of an if, a for and a return: ten nodes, eight of them
\* numbered.
C20_Witness ==
    /\ s_pc = "done"
    /\ s_structures = <<"if", "for", "return">>
    /\ s_counter = 8
    /\ Cardinality(NodesOf(s_diagram)) = 10
    /\ Introduced(Parsed(s_diagram)) =
          <<"START", "N0", "N1", "N2", "N3", "N4", "N5", "N6", "N7", "END">>

(***************************************************************************)
(* The per-function handler of _process_job                                *)
(***************************************************************************)
\* Thread t is inside `for func_name in functions` (or in the update_job
\* call that comes back to it).
InLoop(t) ==
    \/ pc[t] \in {"loop", "func_except", "incr"}
    \/ pc[t] \in {"u_store", "u_unlock", "u_notify"} /\ w_ret[t] = "loop"

ErrorMarked(result) == Contains(result.mermaid_diagram, "Error: ")

\* The step thread t takes from the per-function handler: one result for
\* the function at hand, marked, appended; nothing else of the job changes.
C21_HandlerStep(t) ==
    LET id == w_job[t]
        func_name == w_functions[t][w_i[t]]
        n == Len(jobs[id].functions)
    IN /\ Len(jobs'[id].functions) = n + 1
       /\ SubSeq(jobs'[id].functions, 1, n) = jobs[id].functions
       /\ jobs'[id].functions[n + 1].name = func_name
       /\ ErrorMarked(jobs'[id].functions[n + 1])
       /\ jobs'[id].status = IN_PROGRESS
       /\ jobs'[id].processed_functions = jobs[id].processed_functions
       /\ pc'[t] = "incr"

\* The step after it: the count goes up by one and update_job is called,
\* to come back to the loop.
C21_CountStep(t) ==
    LET id == w_job[t]
    IN /\ jobs'[id].processed_functions = jobs[id].processed_functions + 1
       /\ jobs'[id].functions = jobs[id].functions
       /\ jobs'[id].status = IN_PROGRESS
       /\ pc'[t] = "u_store"
       /\ w_ret'[t] = "loop"

\* While the loop runs: the results are those of the names taken so far,
\* one each and in order, the count follows, and what update_job announced
\* last is the count of the functions done.
C21_LoopState(t) ==
    LET id == w_job[t]
        n == Len(jobs[id].functions)
    IN /\ jobs[id].status = IN_PROGRESS
       /\ n = IF pc[t] = "func_except" THEN w_i[t] - 1 ELSE w_i[t]
       /\ Names(jobs[id].functions) = SubSeq(w_functions[t], 1, n)
       /\ jobs[id].processed_functions = IF pc[t] = "incr" THEN n - 1 ELSE n
       /\ (pc[t] = "loop" /\ can_schedule) =>
             /\ events # <<>>
             /\ events[Len(events)].job_id = id
             /\ events[Len(events)].processed_functions = w_i[t]
             /\ events[Len(events)].status = IN_PROGRESS
       /\ (pc[t] = "loop" /\ w_i[t] < Len(w_functions[t])) => ENABLED W_Generate(t)

Uncounted(id) == \E t \in alive : w_job[t] = id /\ pc[t] = "incr"

\* update_job has stored the job that thread t works on and not yet returned.
Updating(t) == pc[t] \in {"u_unlock", "u_notify"}

\* C22: a job's functions only ever grow at the end (no entry is removed,
\* moved or changed), and whenever update_job runs on the job, the update
\* that stores Failed included, len(functions) = processed_functions; the
\* two differ only between the append and the increment that follows it.
C22_AppendOnly ==
    [][/\ \A id \in JobIds :
             /\ Len(jobs[id].functions) <= Len(jobs'[id].functions)
             /\ SubSeq(jobs'[id].functions, 1, Len(jobs[id].functions)) = jobs[id].functions
       /\ \A id \in DOMAIN jobs' :
             ~Uncounted(id)' => Len(jobs'[id].functions) = jobs'[id].processed_functions
       /\ \A t \in alive : Updating(t)' => ~Uncounted(w_job[t])']_vars

\* update_job is storing the second result of a job, the first of them an
\* error result, after the job before it was stored as Failed.
C22_Witness ==
    \E t \in alive :
        /\ Updating(t)
        /\ w_job[t] = 2
        /\ Len(jobs[2].functions) = 2
        /\ jobs[2].processed_functions = 2
        /\ ErrorMarked(jobs[2].functions[1])
        /\ jobs[1].status = FAILED
        /\ jobs[1].functions = <<>>
        /\ jobs[1].processed_functions = 0

\* What the local heuristic validator asks of a text, and the claim's two
\* conditions read off the text itself.
C23_Valid(text) ==
    /\ \A lines \in {SplitLines(text)} :
          /\ lines[1] = "flowchart TD"
          /\ \E k \in 2..Len(lines) : Contains(lines[k], " --> ")
    /\ _basic_mermaid_validation(text)

\* The texts the function gives over all outcomes of the four runs
C23_Texts(code, function_name, tool) ==
    {generate_mermaid_diagram(code, function_name, tool, runs) : runs \in Runs}

\* The call has returned: with a valid diagram, the basic one if the tool
\* is absent or a run timed out, else the one drawn from what the four
\* runs found.
C23_Returned ==
    s_pc = "done" =>
        /\ C23_Valid(s_diagram)
        /\ s_diagram = IF ~s_tool \/ s_q < 4 THEN _generate_basic_mermaid(s_name)
                       ELSE Draw(Analyzed(s_structures), s_name).text

\* Whatever the four runs do, the function gives a valid diagram; so is the
\* diagram the worker stores for a function whose synthesis failed.
C23_Total ==
    s_pc = "call" =>
        /\ \A text \in C23_Texts(s_code, s_name, s_tool) : C23_Valid(text)
        /\ \A e \in Exceptions : C23_Valid(ErrorDiagram(s_name, e))

\* C23: generate_mermaid_diagram never raises and always returns: with the
\* tool absent, timing out, exiting non-zero or printing malformed output
\* on any of the four queries, or the function's text not found, what it
\* returns starts with the flowchart declaration, has an edge and passes
\* _basic_mermaid_validation.
C23_AlwaysDiagram ==
    /\ [](s_pc # "raised" /\ C23_Returned /\ C23_Total)
    /\ <>(s_pc = "done")

\* The first query found the if of foo, the third timed out: the call
\* returned the basic diagram.
C23_Witness ==
    /\ s_tool
    /\ s_name = "foo"
    /\ s_pc = "done"
    /\ s_q = 2
    /\ s_structures = <<"if">>
    /\ s_diagram = _generate_basic_mermaid("foo")

\* A candidate the filter keeps
C24_Valid(name) == name # "" /\ SubSeq(name, 1, 1) # "_" /\ name \notin Keywords

\* The identifiers the matches capture, in the order of the matches
C24_Captures ==
    LET keyed == SelectSeq(l_matches, LAMBDA m : m.shape # "nokey")
    IN [k \in 1..Len(keyed) |-> IF keyed[k].shape = "emptylist" THEN "" ELSE keyed[k].text]

\* Where a name is first captured
C24_First(name) ==
    CHOOSE k \in 1..Len(C24_Captures) :
        C24_Captures[k] = name /\ \A j \in 1..(k - 1) : C24_Captures[j] # name

\* `names` is the valid captures, once each, in first-seen order
C24_FirstSeen(names) ==
    /\ Range(names) = {c \in Range(C24_Captures) : C24_Valid(c)}
    /\ Distinct(names)
    /\ \A a, b \in 1..Len(names) : a < b => C24_First(names[a]) < C24_First(names[b])

\* C24: when the tool prints matches the code can read, find_functions
\* returns the identifiers they capture, first-seen order, later duplicates
\* dropped, without the empty ones, those with a leading underscore and
\* the keywords; if none is left (or a match cannot be read) it returns
\* what the fallback returns.
C24_TierOne ==
    l_result # NoCall =>
        /\ l_result.kind = "return"
        /\ IF /\ \A k \in 1..Len(l_matches) : l_matches[k].shape # "strlist"
              /\ \E c \in Range(C24_Captures) : C24_Valid(c)
           THEN C24_FirstSeen(l_result.names)
           ELSE l_result \in Fallback(l_code)

\* The tool captured bar, the keyword if and bar again: the call returned
\* bar alone, for a text whose fallback result would have been foo and bar.
C24_Witness ==
    /\ l_code = <<Foo, Bar>>
    /\ l_matches = <<Match("list", "bar"), Match("list", "if"), Match("list", "bar")>>
    /\ l_result = Returned(<<"bar">>)

\* What a handler of the given route would answer from a job in state j
C25_View(route, j) == IF route = "get" THEN JobDetailResponse(j) ELSE JobResponse(j)

\* C25: what a reader got from get_job or get_all_jobs is a snapshot: no
\* step of the worker changes a job the reader holds, and every job state
\* a response shows is one that create_job or an update of update_job
\* stored, never a state between two updates.
C25_ReaderSnapshot ==
    [][/\ \A id \in r_held \cap r_held' : jobs'[id] = jobs[id]
       /\ \A id \in DOMAIN r_seen'.body :
             \E j \in h_stored'[id] : r_seen'.body[id] = C25_View(r_seen'.route, j)]_vars

\* How often send_json delivered message m to websocket ws
Deliveries(ws, m) == Len(SelectSeq(received[ws], LAMBDA x : x = m))

\* No message reaches a websocket twice.
C26_AtMostOnce == \A ws \in Sockets : \A m \in Broadcasts : Deliveries(ws, m) <= 1

\* A broadcast that has ended delivers nothing more.
C26_NoneAfterEnd ==
    \A ws \in Sockets : \A m \in Broadcasts :
        b_pc[m] = "done" => Deliveries(ws, m)' = Deliveries(ws, m)

\* A websocket that was in the active list when the loop of broadcast m
\* began, is still in it when the loop ends, and to which a send succeeds
\* (its client is there), has got m.
C26_AllHealthyReached ==
    \A m \in Broadcasts :
        C10_Ends(m) =>
            \A ws \in b_start'[m] \cap Range(active_connections) :
                ws_state[ws] = "open" => Deliveries(ws, m) = 1

\* C26: each event reaches a subscriber at most once and reaches none after
\* its broadcast has ended; every subscriber that is active from the start
\* to the end of a broadcast and to which sending succeeds gets the event
\* exactly once, whatever connects, disconnects or is removed while the
\* broadcast is suspended in a send.
C26_ExactlyOnce ==
    [][C26_AtMostOnce' /\ C26_NoneAfterEnd /\ C26_AllHealthyReached]_vars

\* Broadcast m carries the m-th update the worker made, so the messages a
\* websocket got are in update order when their numbers rise.
InUpdateOrder(messages) ==
    \A i, j \in 1..Len(messages) : i < j => messages[i] < messages[j]

====
